---- MODULE Spec2Model ----
(***************************************************************************)
(* Model of the caption / video merge pipeline of                          *)
(* src/src/processor/video_processor.py (class VideoProcessor).            *)
(*                                                                         *)
(* Strings are sequences of one-character strings, so that the string      *)
(* operations of the code (lower, endswith, split, splitext, dirname) are  *)
(* computed rather than assumed.  A pathlib.Path is the sequence of its    *)
(* parts, each part a string.                                              *)
(***************************************************************************)
EXTENDS Naturals, Integers, Sequences, FiniteSets, TLC

VARIABLES
    files,      \* the files of the input tree, videos and sidecars (set of Paths)
    tmpfiles,   \* files in temp_dir: function from path string to [owner, complete]
    outputs,    \* output files on disk: function from path string to [owner, state]
    dirs,       \* directories created by os.makedirs / Path.mkdir (path strings)
    call,       \* the activation of merge_video_with_subtitles
    batch,      \* the activation of batch_process_videos
    query,      \* the activation of a single _find_matching_subtitle call
    log         \* history: which jobs called the orchestrator, and their scratch paths

vars == <<files, tmpfiles, outputs, dirs, call, batch, query, log>>

-----------------------------------------------------------------------------
(* String helpers (Python str / os.path semantics)                         *)

\* the empty string, also used for None where the code returns Optional[Path]
Empty == <<>>

\* str.lower() of one character
UpperChars == <<"A", "B", "C", "D", "E", "F", "G", "H", "I", "J", "K", "L", "M",
                "N", "O", "P", "Q", "R", "S", "T", "U", "V", "W", "X", "Y", "Z">>

LowerChars == <<"a", "b", "c", "d", "e", "f", "g", "h", "i", "j", "k", "l", "m",
                "n", "o", "p", "q", "r", "s", "t", "u", "v", "w", "x", "y", "z">>

LowerChar(c) ==
    IF \E i \in 1..26 : UpperChars[i] = c
    THEN LowerChars[CHOOSE i \in 1..26 : UpperChars[i] = c]
    ELSE c

\* str.lower()
Lower(s) == [i \in 1..Len(s) |-> LowerChar(s[i])]

\* str.endswith(suffix)
EndsWith(s, suf) ==
    /\ Len(suf) <= Len(s)
    /\ SubSeq(s, Len(s) - Len(suf) + 1, Len(s)) = suf

\* str.rfind(ch) + 1 : the 1-based index of the last occurrence of ch, 0 if none
RFind(s, ch) ==
    LET hits == {i \in 1..Len(s) : s[i] = ch}
    IN  IF hits = {} THEN 0 ELSE CHOOSE i \in hits : \A j \in hits : j <= i

\* str.split('-')[0] : the part before the first hyphen
SplitFirst(s, ch) ==
    LET hits == {i \in 1..Len(s) : s[i] = ch}
    IN  IF hits = {} THEN s
        ELSE SubSeq(s, 1, (CHOOSE i \in hits : \A j \in hits : i <= j) - 1)

\* os.path.splitext(p)[0] (genericpath._splitext): the extension starts at the
\* last dot of the last component, unless that component has only leading dots
SplitextRoot(p) ==
    LET sepIndex == RFind(p, "/")
        dotIndex == RFind(p, ".")
    IN  IF dotIndex > sepIndex
           /\ \E k \in (sepIndex + 1)..(dotIndex - 1) : p[k] # "."
        THEN SubSeq(p, 1, dotIndex - 1)
        ELSE p

\* os.path.dirname(p) (posixpath): everything before the last slash, trailing
\* slashes stripped unless the head is all slashes
RECURSIVE RStripSlash(_)
RStripSlash(s) ==
    IF s # Empty /\ s[Len(s)] = "/" THEN RStripSlash(SubSeq(s, 1, Len(s) - 1)) ELSE s

Dirname(p) ==
    LET head == SubSeq(p, 1, RFind(p, "/"))
    IN  IF head # Empty /\ \E k \in 1..Len(head) : head[k] # "/"
        THEN RStripSlash(head)
        ELSE head

-----------------------------------------------------------------------------
(* pathlib.Path helpers: a Path is a non-empty sequence of parts           *)

PathName(path) == path[Len(path)]

PathParent(path) == SubSeq(path, 1, Len(path) - 1)

\* PurePath.suffix: from the last dot of the name, unless the dot is the first
\* or the last character of the name
PathSuffix(path) ==
    LET name == PathName(path)
        i == RFind(name, ".")
    IN  IF 1 < i /\ i < Len(name) THEN SubSeq(name, i, Len(name)) ELSE Empty

\* PurePath.stem
PathStem(path) ==
    LET name == PathName(path)
        i == RFind(name, ".")
    IN  IF 1 < i /\ i < Len(name) THEN SubSeq(name, 1, i - 1) ELSE name

\* str(path): the parts joined by "/"; the path without parts is "."
RECURSIVE PathStr(_)
PathStr(path) ==
    IF Len(path) = 0 THEN <<".">>
    ELSE IF Len(path) = 1 THEN path[1]
    ELSE PathStr(PathParent(path)) \o <<"/">> \o PathName(path)

-----------------------------------------------------------------------------
(* SubtitleLocator: VideoProcessor._find_matching_subtitle                 *)

DotVtt == <<".", "v", "t", "t">>
DotSrt == <<".", "s", "r", "t">>
DotMp4 == <<".", "m", "p", "4">>

\* subtitle_extensions = ['.vtt', '.srt']
subtitle_extensions == <<DotVtt, DotSrt>>

\* video_file.parent / f"{base_name}.{tag}{ext}"
SubtitleCandidate(video_file, tag, ext) ==
    PathParent(video_file) \o <<PathStem(video_file) \o <<".">> \o tag \o ext>>

\* variant of the loop that never tries the primary subtag
RECURSIVE FindFromExt_FullTagOnly(_, _, _, _)
FindFromExt_FullTagOnly(fs, video_file, subtitle_lang, i) ==
    IF i > Len(subtitle_extensions) THEN Empty
    ELSE LET full == SubtitleCandidate(video_file, subtitle_lang,
                                       subtitle_extensions[i])
         IN  IF full \in fs THEN full
             ELSE FindFromExt_FullTagOnly(fs, video_file, subtitle_lang, i + 1)

\* the body of the for loop over subtitle_extensions, from extension i on
RECURSIVE FindFromExt(_, _, _, _)
FindFromExt(fs, video_file, subtitle_lang, i) ==
    IF i > Len(subtitle_extensions) THEN Empty
    ELSE LET ext == subtitle_extensions[i]
             full == SubtitleCandidate(video_file, subtitle_lang, ext)
             prim == SubtitleCandidate(video_file, SplitFirst(subtitle_lang, "-"), ext)
         IN  IF full \in fs THEN full
             ELSE IF prim \in fs THEN prim
             ELSE FindFromExt(fs, video_file, subtitle_lang, i + 1)

find_matching_subtitle(fs, video_file, subtitle_lang) ==
    FindFromExt(fs, video_file, subtitle_lang, 1)

-----------------------------------------------------------------------------
(* File names of the model's world                                         *)

InDir == <<"i", "n">>
VideoA == <<InDir, <<"a", ".", "m", "p", "4">>>>
LangZhHans == <<"z", "h", "-", "H", "a", "n", "s">>
LangZhHant == <<"z", "h", "-", "H", "a", "n", "t">>
LangZh == <<"z", "h">>
LangEn == <<"e", "n">>

\* the sidecar files a.<tag>.<ext> that may lie next to in/a.mp4
SidecarUniverse ==
    {SubtitleCandidate(VideoA, tag, ext) :
        tag \in {LangZhHans, LangZh, LangEn}, ext \in {DotVtt, DotSrt}}

QueryLangs == {LangZhHans, LangZhHant, LangZh, LangEn}

NoQuery == [pc |-> "none"]
NoBatch == [pc |-> "none"]
IdleCall == [pc |-> "idle"]
NoLog == [called |-> {}, scratch_of |-> <<>>]

-----------------------------------------------------------------------------
(* One call of _find_matching_subtitle on an arbitrary directory content   *)

InitLocate ==
    /\ files \in SUBSET SidecarUniverse
    /\ query \in [pc : {"call"}, video_file : {VideoA}, subtitle_lang : QueryLangs]
    /\ tmpfiles = <<>>
    /\ outputs = <<>>
    /\ dirs = {}
    /\ call = IdleCall
    /\ batch = NoBatch
    /\ log = NoLog

Locate ==
    /\ query.pc = "call"
    /\ query' = [pc |-> "returned",
                 video_file |-> query.video_file,
                 subtitle_lang |-> query.subtitle_lang,
                 result |-> find_matching_subtitle(files, query.video_file,
                                                   query.subtitle_lang)]
    /\ UNCHANGED <<files, tmpfiles, outputs, dirs, call, batch, log>>

NextLocate == Locate

SpecLocate == InitLocate /\ [][NextLocate]_vars

-----------------------------------------------------------------------------
(* MergeOrchestrator: VideoProcessor.merge_video_with_subtitles             *)

\* dict / directory updates
Put(f, k, v) == [x \in (DOMAIN f) \cup {k} |-> IF x = k THEN v ELSE f[x]]
Del(f, k) == [x \in (DOMAIN f) \ {k} |-> f[x]]

\* os.path.exists(p) for a path string of the input tree
Exists(p) == \E f \in files : PathStr(f) = p

\* self.temp_dir and os.getpid(): fixed for the life of the process
temp_dir == <<"/", "t", "m", "p">>
Pid == <<"4", "2", "4", "2">>

\* subprocess.run(cmd, ..., timeout=600)
EncoderTimeout == 600

\* os.path.join(self.temp_dir, f"temp_subtitle_{os.getpid()}.srt")
scratch_path == temp_dir \o <<"/">> \o <<"temp_subtitle_">> \o Pid \o DotSrt

\* lines 224-226: force the .mp4 extension
rewrite_output_path(output_path) ==
    IF ~EndsWith(Lower(output_path), DotMp4)
    THEN SplitextRoot(output_path) \o DotMp4
    ELSE output_path

\* variant of the except clauses without the TimeoutExpired clause
merge_handler_NoTimeoutClause(subprocess_bound, exc) ==
    IF ~subprocess_bound
    THEN [propagate |-> TRUE, exc |-> <<"UnboundLocalError: subprocess">>]
    ELSE [propagate |-> FALSE,
          result |-> [success |-> FALSE, error |-> <<"Unexpected error", exc>>]]

\* the except clauses of _merge_with_ffmpeg (lines 277-290).  `subprocess` is a
\* local name of the function, bound by the import at line 221: matching an
\* exception against subprocess.TimeoutExpired before that import has run
\* raises UnboundLocalError out of the function.
merge_handler(subprocess_bound, exc) ==
    IF ~subprocess_bound
    THEN [propagate |-> TRUE, exc |-> <<"UnboundLocalError: subprocess">>]
    ELSE IF exc = "TimeoutExpired"
    THEN [propagate |-> FALSE,
          result |-> [success |-> FALSE, error |-> <<"FFmpeg command timed out">>]]
    ELSE [propagate |-> FALSE,
          result |-> [success |-> FALSE, error |-> <<"Unexpected error", exc>>]]

\* variant of the except clause that logs the error and returns no result
Raise_NoResult(exc) ==
    call' = [call EXCEPT !.pc = "returned"]

\* the except clause of merge_video_with_subtitles (lines 185-192)
Raise(exc) ==
    call' = [call EXCEPT !.pc = "returned",
                         !.result = [success |-> FALSE,
                                     error |-> exc,
                                     video_path |-> call.video_path,
                                     subtitle_path |-> call.subtitle_path]]

\* the activation record at entry of merge_video_with_subtitles
NewCall(job, video_path, pathlike, subtitle_path, output_path, style, quality) ==
    [pc |-> "validate", job |-> job,
     video_path |-> video_path, video_is_pathlike |-> pathlike,
     subtitle_path |-> subtitle_path, output_path |-> output_path,
     subtitle_style |-> style, video_quality |-> quality,
     srt_path |-> Empty, out_path |-> Empty,
     proc |-> "none", rc |-> 0, result |-> <<>>]

\* lines 166-170
Validate ==
    /\ call.pc = "validate"
    /\ IF ~Exists(call.video_path)
       THEN Raise(<<"Video file not found", call.video_path>>)
       ELSE IF ~Exists(call.subtitle_path)
       THEN Raise(<<"Subtitle file not found", call.subtitle_path>>)
       ELSE call' = [call EXCEPT !.pc = "makedirs"]
    /\ UNCHANGED <<files, tmpfiles, outputs, dirs, batch, query, log>>

\* line 172: os.makedirs(os.path.dirname(output_path), exist_ok=True);
\* os.makedirs('') raises FileNotFoundError
Makedirs ==
    /\ call.pc = "makedirs"
    /\ LET d == Dirname(call.output_path)
       IN  IF d = Empty
           THEN /\ Raise(<<"No such file or directory", d>>)
                /\ dirs' = dirs
           ELSE /\ dirs' = dirs \cup {d}
                /\ call' = [call EXCEPT !.pc = "ensure_srt"]
    /\ UNCHANGED <<files, tmpfiles, outputs, batch, query, log>>

\* variant of _ensure_srt_format that falls back on the given subtitle when the
\* conversion fails
EnsureSrt_FallsBack ==
    /\ call.pc = "ensure_srt"
    /\ IF EndsWith(call.subtitle_path, DotVtt)
       THEN LET srt_path == scratch_path
            IN  \/ /\ tmpfiles' = Put(tmpfiles, srt_path,
                                      [owner |-> call.job, complete |-> TRUE])
                   /\ call' = [call EXCEPT !.pc = "build", !.srt_path = srt_path]
                   /\ log' = [log EXCEPT !.scratch_of = Put(@, call.job, srt_path)]
                \/ /\ tmpfiles' = tmpfiles
                   /\ call' = [call EXCEPT !.pc = "build",
                                           !.srt_path = call.subtitle_path]
                   /\ log' = log
       ELSE /\ call' = [call EXCEPT !.pc = "build", !.srt_path = call.subtitle_path]
            /\ UNCHANGED <<tmpfiles, log>>
    /\ UNCHANGED <<files, outputs, dirs, batch, query>>

\* line 174 and _ensure_srt_format (lines 194-206) with SubtitleConverter.vtt_to_srt
\* (lines 15-30): the conversion may fail while the .vtt is read or parsed,
\* before the scratch file is opened
EnsureSrt ==
    /\ call.pc = "ensure_srt"
    /\ IF EndsWith(call.subtitle_path, DotVtt)
       THEN LET srt_path == scratch_path
            IN  \/ /\ tmpfiles' = Put(tmpfiles, srt_path,
                                      [owner |-> call.job, complete |-> TRUE])
                   /\ call' = [call EXCEPT !.pc = "build", !.srt_path = srt_path]
                   /\ log' = [log EXCEPT !.scratch_of = Put(@, call.job, srt_path)]
                \/ /\ tmpfiles' = tmpfiles
                   /\ Raise(<<"Failed to convert VTT to SRT format">>)
                   /\ log' = log
       ELSE /\ call' = [call EXCEPT !.pc = "build", !.srt_path = call.subtitle_path]
            /\ UNCHANGED <<tmpfiles, log>>
    /\ UNCHANGED <<files, outputs, dirs, batch, query>>

\* line 176 and _merge_with_ffmpeg up to the subprocess call (lines 214-248)
BuildCommand ==
    /\ call.pc = "build"
    /\ IF call.subtitle_style = "not_a_mapping"
       THEN \* line 176: {**defaults, **subtitle_style} raises TypeError
            Raise(<<"TypeError: not a mapping">>)
       ELSE IF call.video_quality = "unhashable"
       THEN \* line 215: quality_map.get(quality) raises TypeError
            LET h == merge_handler(FALSE, "TypeError: unhashable")
            IN  IF h.propagate THEN Raise(h.exc)
                ELSE call' = [call EXCEPT !.pc = "cleanup", !.result = h.result]
       ELSE IF call.subtitle_style = "fontcolor_not_str"
       THEN \* line 218 -> 299 -> 317: color.lower() raises AttributeError
            LET h == merge_handler(FALSE, "AttributeError: lower")
            IN  IF h.propagate THEN Raise(h.exc)
                ELSE call' = [call EXCEPT !.pc = "cleanup", !.result = h.result]
       ELSE LET out == rewrite_output_path(call.output_path)
            IN  IF call.video_is_pathlike
                THEN \* line 248: ' '.join(cmd) raises TypeError, after the import
                     call' = [call EXCEPT
                         !.pc = "cleanup",
                         !.out_path = out,
                         !.result = merge_handler(TRUE, "TypeError: join").result]
                ELSE call' = [call EXCEPT !.pc = "spawn", !.out_path = out]
    /\ UNCHANGED <<files, tmpfiles, outputs, dirs, batch, query, log>>

\* line 251: subprocess.run starts the encoder; Popen raises FileNotFoundError
\* when the ffmpeg executable is missing
Spawn ==
    /\ call.pc = "spawn"
    /\ \/ call' = [call EXCEPT !.pc = "wait", !.proc = "running"]
       \/ call' = [call EXCEPT
               !.pc = "cleanup",
               !.result = merge_handler(TRUE, "FileNotFoundError: ffmpeg").result]
    /\ UNCHANGED <<files, tmpfiles, outputs, dirs, batch, query, log>>

\* the output file as the running encoder of this job has left it so far
PartialOutput == [owner |-> call.job, state |-> "partial"]

\* the encoder (external): with -y it opens, truncates and starts writing the
\* output path given on its command line
EncoderWrite ==
    /\ call.pc = "wait"
    /\ call.proc = "running"
    /\ ~(call.out_path \in DOMAIN outputs /\ outputs[call.out_path] = PartialOutput)
    /\ outputs' = Put(outputs, call.out_path, PartialOutput)
    /\ UNCHANGED <<files, tmpfiles, dirs, call, batch, query, log>>

\* the encoder exits within the timeout: with code 0 it has finished the output
\* file, or has written none; with a nonzero code it leaves what it has written
EncoderExit ==
    /\ call.pc = "wait"
    /\ call.proc = "running"
    /\ \E rc \in {0, 1} :
        /\ call' = [call EXCEPT !.pc = "verify", !.proc = "exited", !.rc = rc]
        /\ \/ /\ rc = 0
              /\ outputs' = Put(outputs, call.out_path,
                                [owner |-> call.job, state |-> "complete"])
           \/ /\ rc = 0
              /\ ~(call.out_path \in DOMAIN outputs
                   /\ outputs[call.out_path] = PartialOutput)
              /\ outputs' = outputs
           \/ /\ rc # 0
              /\ outputs' = outputs
    /\ UNCHANGED <<files, tmpfiles, dirs, batch, query, log>>

\* the deadline of subprocess.run expires: run() kills the child, waits for it
\* and raises TimeoutExpired (handled at lines 277-283)
Timeout ==
    /\ call.pc = "wait"
    /\ call.proc = "running"
    /\ call' = [call EXCEPT !.pc = "cleanup", !.proc = "killed",
                            !.result = merge_handler(TRUE, "TimeoutExpired").result]
    /\ UNCHANGED <<files, tmpfiles, outputs, dirs, batch, query, log>>

\* variant of the checks after the subprocess that looks at the output file
\* before the exit code
Verify_OutputFirst ==
    /\ call.pc = "verify"
    /\ call' = [call EXCEPT
           !.pc = "cleanup",
           !.result =
               IF call.out_path \in DOMAIN outputs
               THEN [success |-> TRUE,
                     output_path |-> call.out_path,
                     file_size |-> <<"getsize", call.out_path>>]
               ELSE IF call.rc # 0
               THEN [success |-> FALSE,
                     error |-> <<"FFmpeg failed with return code", call.rc, "stderr">>]
               ELSE [success |-> FALSE, error |-> <<"Output file was not created">>]]
    /\ UNCHANGED <<files, tmpfiles, outputs, dirs, batch, query, log>>

\* lines 253-275
Verify ==
    /\ call.pc = "verify"
    /\ call' = [call EXCEPT
           !.pc = "cleanup",
           !.result =
               IF call.rc # 0
               THEN [success |-> FALSE,
                     error |-> <<"FFmpeg failed with return code", call.rc, "stderr">>]
               ELSE IF call.out_path \notin DOMAIN outputs
               THEN [success |-> FALSE, error |-> <<"Output file was not created">>]
               ELSE [success |-> TRUE,
                     output_path |-> call.out_path,
                     file_size |-> <<"getsize", call.out_path>>]]
    /\ UNCHANGED <<files, tmpfiles, outputs, dirs, batch, query, log>>

\* variant of the cleanup that removes the subtitle handed to the encoder
\* whether or not it is the given subtitle
Cleanup_NoGuard ==
    /\ call.pc = "cleanup"
    /\ tmpfiles' = IF call.srt_path \in DOMAIN tmpfiles
                   THEN Del(tmpfiles, call.srt_path)
                   ELSE tmpfiles
    /\ files' = {f \in files : PathStr(f) # call.srt_path}
    /\ call' = [call EXCEPT !.pc = "returned"]
    /\ UNCHANGED <<outputs, dirs, batch, query, log>>

\* lines 180-183: reached only when _merge_with_ffmpeg has returned a result;
\* os.remove(srt_path) removes whatever file has that path
Cleanup ==
    /\ call.pc = "cleanup"
    /\ tmpfiles' = IF call.srt_path # call.subtitle_path
                      /\ call.srt_path \in DOMAIN tmpfiles
                   THEN Del(tmpfiles, call.srt_path)
                   ELSE tmpfiles
    /\ files' = IF call.srt_path # call.subtitle_path
                THEN {f \in files : PathStr(f) # call.srt_path}
                ELSE files
    /\ call' = [call EXCEPT !.pc = "returned"]
    /\ UNCHANGED <<outputs, dirs, batch, query, log>>

\* the steps of one merge_video_with_subtitles call
MergeStep ==
    \/ Validate
    \/ Makedirs
    \/ EnsureSrt
    \/ BuildCommand
    \/ Spawn
    \/ EncoderWrite
    \/ EncoderExit
    \/ Timeout
    \/ Verify
    \/ Cleanup

-----------------------------------------------------------------------------
(* A single direct call of merge_video_with_subtitles (API / cli single    *)
(* file merge) with arbitrary arguments                                    *)

Str_in_a_mp4 == PathStr(VideoA)
Str_in_x_mp4 == <<"i", "n", "/", "x", ".", "m", "p", "4">>
SubZhVtt == SubtitleCandidate(VideoA, LangZh, DotVtt)
SubZhSrt == SubtitleCandidate(VideoA, LangZh, DotSrt)
SubEnSrt == SubtitleCandidate(VideoA, LangEn, DotSrt)

\* requested output paths
OutPaths ==
    { <<"c", "l", "i", "p", ".", "m", "k", "v">>,
      <<"v", "i", "d", "e", "o", ".", "a", "v", "i">>,
      <<"v", ".", "m", "p", "4">>,
      <<"o", "/", "c", "l", "i", "p", ".", "m", "k", "v">>,
      <<"o", "/", "v", ".", "a", "v", "i">>,
      <<"o", "/", "v", ".", "m", "o", "v">>,
      <<"o", "/", "v", ".", "m", "p", "4">>,
      <<"o", "/", "v", ".", "M", "P", "4">>,
      <<"o", "/", "v", ".", "M", "K", "V">>,
      <<"o", "/", "c", "l", "i", "p">>,
      <<"o", ".", "d", "/", "c", "l", "i", "p">>,
      <<"o", "/", ".", "m", "k", "v">>,
      <<"o", "/", "v", ".", "t", ".", "m", "k", "v">> }

StyleArgs == {"default", "not_a_mapping", "fontcolor_not_str"}
QualityArgs == {"high", "unhashable"}

InitCall ==
    /\ files = {VideoA, SubZhVtt, SubZhSrt}
    /\ \E video_path \in {Str_in_a_mp4, Str_in_x_mp4},
          pathlike \in BOOLEAN,
          subtitle \in {SubZhVtt, SubZhSrt, SubEnSrt},
          output_path \in OutPaths,
          style \in StyleArgs,
          quality \in QualityArgs :
            call = NewCall(1, video_path, pathlike, PathStr(subtitle),
                           output_path, style, quality)
    /\ tmpfiles = <<>>
    /\ outputs = <<>>
    /\ dirs = {}
    /\ batch = NoBatch
    /\ query = NoQuery
    /\ log = [called |-> {1}, scratch_of |-> <<>>]

NextCall == MergeStep

SpecCall == InitCall /\ [][NextCall]_vars

-----------------------------------------------------------------------------
(* BatchScheduler: VideoProcessor.batch_process_videos                      *)

\* the largest number of videos in the input tree
MaxVideos == 3

\* characters in ASCII order, for the comparison of path parts
AsciiOrder ==
    <<"-", ".", "/", "0", "1", "2", "3", "4", "5", "6", "7", "8", "9",
      "A", "B", "C", "D", "E", "F", "G", "H", "I", "J", "K", "L", "M",
      "N", "O", "P", "Q", "R", "S", "T", "U", "V", "W", "X", "Y", "Z", "_",
      "a", "b", "c", "d", "e", "f", "g", "h", "i", "j", "k", "l", "m",
      "n", "o", "p", "q", "r", "s", "t", "u", "v", "w", "x", "y", "z">>

Ord(c) == CHOOSE i \in 1..Len(AsciiOrder) : AsciiOrder[i] = c

\* s < t for two strings (str.__lt__)
RECURSIVE StrLess(_, _)
StrLess(s, t) ==
    IF t = Empty THEN FALSE
    ELSE IF s = Empty THEN TRUE
    ELSE IF s[1] = t[1] THEN StrLess(Tail(s), Tail(t))
    ELSE Ord(s[1]) < Ord(t[1])

\* p < q for two Paths: the lists of parts compared lexicographically
RECURSIVE PathLess(_, _)
PathLess(p, q) ==
    IF q = <<>> THEN FALSE
    ELSE IF p = <<>> THEN TRUE
    ELSE IF p[1] = q[1] THEN PathLess(Tail(p), Tail(q))
    ELSE StrLess(p[1], q[1])

\* sorted(S) for a set of Paths
RECURSIVE Sorted(_)
Sorted(S) ==
    IF S = {} THEN <<>>
    ELSE LET least == CHOOSE p \in S : \A q \in S \ {p} : PathLess(p, q)
         IN  <<least>> \o Sorted(S \ {least})

\* video_extensions of _find_video_files
video_extensions ==
    { <<".", "m", "p", "4">>, <<".", "a", "v", "i">>, <<".", "m", "k", "v">>,
      <<".", "m", "o", "v">>, <<".", "w", "m", "v">>, <<".", "f", "l", "v">>,
      <<".", "w", "e", "b", "m">> }

DotPart == <<".", "p", "a", "r", "t">>

\* _find_video_files (lines 414-422): directory.rglob('*') yields every file
\* below the directory
find_video_files(fs, directory) ==
    Sorted({f \in fs :
              /\ Len(f) > Len(directory)
              /\ SubSeq(f, 1, Len(directory)) = directory
              /\ Lower(PathSuffix(f)) \in video_extensions
              /\ ~EndsWith(PathName(f), DotPart)})

\* output_path / f"{video_file.stem}_with_subtitles{video_file.suffix}"
batch_output_file(output_dir, video_file) ==
    output_dir \o <<PathStem(video_file) \o <<"_with_subtitles">>
                    \o PathSuffix(video_file)>>

\* variant of the no-subtitle result that carries no reason
skip_result_NoReason(video_file, subtitle_lang) ==
    [success |-> FALSE, video_path |-> PathStr(video_file)]

\* lines 384-388: the result of a video without subtitle
skip_result(video_file, subtitle_lang) ==
    [success |-> FALSE,
     error |-> <<"No ", subtitle_lang, " subtitle found">>,
     video_path |-> PathStr(video_file)]

\* lines 368-375
BatchStart ==
    /\ batch.pc = "start"
    /\ dirs' = dirs \cup {PathStr(batch.output_dir)}
    /\ batch' = [batch EXCEPT !.pc = "loop",
                              !.video_files = find_video_files(files, batch.input_dir)]
    /\ UNCHANGED <<files, tmpfiles, outputs, call, query, log>>

\* variant of the loop that starts the orchestrator call of a video and goes
\* on to the next video without waiting for the call to return
BatchNext_NoAwait ==
    /\ batch.pc = "loop"
    /\ batch.idx <= Len(batch.video_files)
    /\ LET video_file == batch.video_files[batch.idx]
           subtitle_file == find_matching_subtitle(files, video_file,
                                                   batch.subtitle_lang)
       IN  IF subtitle_file = Empty
           THEN /\ batch' = [batch EXCEPT
                        !.results = Append(@, skip_result(video_file,
                                                          batch.subtitle_lang)),
                        !.idx = @ + 1]
                /\ UNCHANGED <<call, log>>
           ELSE /\ call' = NewCall(batch.idx, PathStr(video_file), FALSE,
                                   PathStr(subtitle_file),
                                   PathStr(batch_output_file(batch.output_dir,
                                                             video_file)),
                                   batch.subtitle_style, batch.video_quality)
                /\ batch' = [batch EXCEPT !.idx = @ + 1]
                /\ log' = [log EXCEPT !.called = @ \cup {batch.idx}]
    /\ UNCHANGED <<files, tmpfiles, outputs, dirs, query>>

\* lines 378-401: one iteration of the loop up to the orchestrator call, or the
\* whole iteration when no subtitle is found
BatchNext ==
    /\ batch.pc = "loop"
    /\ batch.idx <= Len(batch.video_files)
    /\ LET video_file == batch.video_files[batch.idx]
           subtitle_file == find_matching_subtitle(files, video_file,
                                                   batch.subtitle_lang)
       IN  IF subtitle_file = Empty
           THEN /\ batch' = [batch EXCEPT
                        !.results = Append(@, skip_result(video_file,
                                                          batch.subtitle_lang)),
                        !.idx = @ + 1]
                /\ UNCHANGED <<call, log>>
           ELSE /\ call' = NewCall(batch.idx, PathStr(video_file), FALSE,
                                   PathStr(subtitle_file),
                                   PathStr(batch_output_file(batch.output_dir,
                                                             video_file)),
                                   batch.subtitle_style, batch.video_quality)
                /\ batch' = [batch EXCEPT !.pc = "await"]
                /\ log' = [log EXCEPT !.called = @ \cup {batch.idx}]
    /\ UNCHANGED <<files, tmpfiles, outputs, dirs, query>>

\* lines 403-407: the orchestrator has returned
BatchCollect ==
    /\ batch.pc = "await"
    /\ call.pc = "returned"
    /\ LET video_file == batch.video_files[batch.idx]
           result == Put(Put(call.result, "video_name", PathName(video_file)),
                         "subtitle_lang", batch.subtitle_lang)
       IN  batch' = [batch EXCEPT !.pc = "loop",
                                  !.results = Append(@, result),
                                  !.idx = @ + 1]
    /\ call' = IdleCall
    /\ UNCHANGED <<files, tmpfiles, outputs, dirs, query, log>>

\* variant of the final count that counts every result
BatchFinish_CountsAll ==
    /\ batch.pc = "loop"
    /\ batch.idx > Len(batch.video_files)
    /\ batch' = [batch EXCEPT !.pc = "done",
                              !.success_count = Len(batch.results)]
    /\ UNCHANGED <<files, tmpfiles, outputs, dirs, call, query, log>>

\* lines 409-412
BatchFinish ==
    /\ batch.pc = "loop"
    /\ batch.idx > Len(batch.video_files)
    /\ batch' = [batch EXCEPT
           !.pc = "done",
           !.success_count =
               Cardinality({i \in 1..Len(batch.results) : batch.results[i].success})]
    /\ UNCHANGED <<files, tmpfiles, outputs, dirs, call, query, log>>

\* environment: a file of the current job disappears between the enumeration
\* and the validation of the job
FileVanishes ==
    /\ batch.pc = "await"
    /\ call.pc = "validate"
    /\ \E f \in files :
        /\ PathStr(f) \in {call.video_path, call.subtitle_path}
        /\ files' = files \ {f}
    /\ UNCHANGED <<tmpfiles, outputs, dirs, call, batch, query, log>>

\* the input trees: videos v1..vn, odd ones .mp4 and even ones .mkv, each with
\* no sidecar, a full-tag .vtt sidecar or a primary-subtag .srt sidecar
VideoLetters == <<"a", "b", "c", "d", "e", "f">>

BatchVideo(i) ==
    <<InDir, <<VideoLetters[i], ".">> \o
             (IF i % 2 = 1 THEN <<"m", "p", "4">> ELSE <<"M", "K", "V">>)>>

Sidecars(i, kind) ==
    CASE kind = "none" -> {}
      [] kind = "vtt" -> {SubtitleCandidate(BatchVideo(i), LangZhHans, DotVtt)}
      [] kind = "srt" -> {SubtitleCandidate(BatchVideo(i), LangZh, DotSrt)}

PartFile == <<InDir, <<"z", ".", "m", "p", "4", ".", "p", "a", "r", "t">>>>

Init ==
    /\ \E n \in 0..MaxVideos :
       \E kinds \in [1..n -> {"none", "vtt", "srt"}] :
           files = {PartFile} \cup {BatchVideo(i) : i \in 1..n}
                   \cup UNION {Sidecars(i, kinds[i]) : i \in 1..n}
    /\ \E output_dir \in {<<<<"o", "u", "t">>>>, <<>>},   \* Path("out"), Path(".")
          style \in {"default", "fontcolor_not_str"},
          quality \in {"high"} :
            batch = [pc |-> "start", input_dir |-> <<InDir>>,
                     output_dir |-> output_dir,
                     subtitle_lang |-> LangZhHans,
                     subtitle_style |-> style, video_quality |-> quality,
                     video_files |-> <<>>, idx |-> 1, results |-> <<>>,
                     success_count |-> 0]
    /\ tmpfiles = <<>>
    /\ outputs = <<>>
    /\ dirs = {}
    /\ call = IdleCall
    /\ query = NoQuery
    /\ log = NoLog

Next ==
    \/ BatchStart
    \/ BatchNext
    \/ BatchCollect
    \/ BatchFinish
    \/ FileVanishes
    \/ MergeStep

Spec == Init /\ [][Next]_vars

-----------------------------------------------------------------------------
(* Properties of the SubtitleLocator (checked under SpecLocate)            *)

A_zh_Hans_vtt == <<InDir, <<"a", ".", "z", "h", "-", "H", "a", "n", "s", ".", "v", "t", "t">>>>
A_zh_Hans_srt == <<InDir, <<"a", ".", "z", "h", "-", "H", "a", "n", "s", ".", "s", "r", "t">>>>
A_zh_vtt == <<InDir, <<"a", ".", "z", "h", ".", "v", "t", "t">>>>
A_zh_srt == <<InDir, <<"a", ".", "z", "h", ".", "s", "r", "t">>>>

\* <stem>.<tag>.<ext> next to the video of the query
QueryFile(tag, ext) == SubtitleCandidate(query.video_file, tag, ext)
QueryPrimary == SplitFirst(query.subtitle_lang, "-")

\* C8: the locator falls back to the primary subtag only when no full-tag file
\* exists in any supported extension: if <stem>.<fullTag>.vtt or
\* <stem>.<fullTag>.srt exists the returned file carries the full tag.
C8_FallbackOnlyWithoutFullTag ==
    query.pc = "returned" =>
        LET fullFiles == {QueryFile(query.subtitle_lang, DotVtt),
                          QueryFile(query.subtitle_lang, DotSrt)}
        IN  (fullFiles \cap files # {}) => (query.result \in fullFiles)

\* the checking order of the locator: per extension, the full tag and then the
\* primary subtag
C9Candidates ==
    <<QueryFile(query.subtitle_lang, DotVtt), QueryFile(QueryPrimary, DotVtt),
      QueryFile(query.subtitle_lang, DotSrt), QueryFile(QueryPrimary, DotSrt)>>

\* C9: the locator returns none exactly when no candidate file exists, and
\* otherwise the first existing candidate of its checking order; for a.mp4 and
\* zh-Hans with a.zh-Hans.vtt absent and a.zh.vtt present it returns a.zh.vtt.
C9_FirstExistingCandidate ==
    query.pc = "returned" =>
        /\ (query.result = Empty) <=> (\A i \in 1..4 : C9Candidates[i] \notin files)
        /\ (query.result # Empty) =>
              \E i \in 1..4 :
                  /\ query.result = C9Candidates[i]
                  /\ C9Candidates[i] \in files
                  /\ \A j \in 1..(i - 1) : C9Candidates[j] \notin files
        /\ ( /\ query.video_file = VideoA
             /\ query.subtitle_lang = LangZhHans
             /\ A_zh_Hans_vtt \notin files
             /\ A_zh_vtt \in files ) => (query.result = A_zh_vtt)

\* a.zh-Hans.vtt absent, a.zh.vtt present, and the locator has answered a.zh.vtt
C9_Witness ==
    /\ query.pc = "returned"
    /\ query.subtitle_lang = LangZhHans
    /\ A_zh_Hans_vtt \notin files
    /\ A_zh_vtt \in files
    /\ A_zh_Hans_srt \in files
    /\ query.result = A_zh_vtt

-----------------------------------------------------------------------------
(* Properties of one merge job (checked under SpecCall)                    *)

\* the call converted a .vtt subtitle into a scratch file
Converted == call.srt_path # Empty /\ call.srt_path # call.subtitle_path

\* C1: a scratch SRT file created from a .vtt subtitle no longer exists when
\* merge_video_with_subtitles returns, on every exit path after the conversion.
C1_ScratchRemovedOnEveryExit ==
    (call.pc = "returned" /\ Converted) => (call.srt_path \notin DOMAIN tmpfiles)

\* the encoder has exited with code 0 and the output file is there
EncodeSucceeded ==
    /\ call.proc = "exited"
    /\ call.rc = 0
    /\ call.out_path \in DOMAIN outputs

C6_NoPartialOutputOnFailure ==
    call.pc = "returned" =>
        IF call.result.success
        THEN /\ call.result.output_path \in DOMAIN outputs
             /\ outputs[call.result.output_path].state = "complete"
        ELSE \A path \in DOMAIN outputs : outputs[path].state # "partial"

\* the arguments of the call are well formed and name existing files; the
\* subtitle needs no conversion
C10ValidRequest ==
    /\ Exists(call.video_path)
    /\ Exists(call.subtitle_path)
    /\ EndsWith(call.subtitle_path, DotSrt)
    /\ ~call.video_is_pathlike
    /\ call.subtitle_style = "default"
    /\ call.video_quality = "high"

\* C10: any requested output path whose extension is not .mp4 (for example the
\* bare path clip.mkv) yields a final file ending in .mp4: the path is
\* rewritten before the encoder is invoked, the rewritten path is the one
\* verified and reported, and a path already ending in .mp4 is left unchanged.
C10_ForcedContainerExtension ==
    (call.pc = "returned" /\ C10ValidRequest) =>
        /\ ~EndsWith(Lower(call.output_path), DotMp4) =>
              /\ call.proc # "none"
              /\ EndsWith(call.out_path, DotMp4)
              /\ call.result.success =>
                    /\ call.result.output_path = call.out_path
                    /\ call.out_path \in DOMAIN outputs
        /\ (EndsWith(call.output_path, DotMp4) /\ call.proc # "none") =>
              call.out_path = call.output_path

-----------------------------------------------------------------------------
(* Properties of a batch run (checked under Spec and FairSpec)             *)

\* result r is the result of video v
ResultOf(r, v) ==
    IF "video_name" \in DOMAIN r
    THEN r.video_name = PathName(v)
    ELSE r.video_path = PathStr(v)

IsSkip(r) == "error" \in DOMAIN r /\ r.error[1] = "No "
IsTimeout(r) == "error" \in DOMAIN r /\ r.error[1] = "FFmpeg command timed out"

C3Safety ==
    /\ batch.pc \in {"loop", "await", "done"} =>
        /\ Len(batch.results) = batch.idx - 1
        /\ Len(batch.results) <= Len(batch.video_files)
        /\ \A i \in 1..Len(batch.results) :
              /\ ResultOf(batch.results[i], batch.video_files[i])
              /\ batch.results[i].success \in BOOLEAN
        /\ \A i, j \in 1..Len(batch.video_files) :
              i < j => PathLess(batch.video_files[i], batch.video_files[j])
    /\ batch.pc = "done" =>
        /\ Len(batch.results) = Len(batch.video_files)
        /\ batch.success_count =
              Cardinality({i \in 1..Len(batch.results) : batch.results[i].success})

\* the number of files of the current job that can still disappear
C3FilesLeft ==
    Cardinality({f \in files : PathStr(f) \in {call.video_path, call.subtitle_path}})

\* an upper bound of the number of steps the orchestrator call has left
C3CallRank ==
    CASE call.pc = "validate" -> 10 + C3FilesLeft
      [] call.pc = "makedirs" -> 9
      [] call.pc = "ensure_srt" -> 8
      [] call.pc = "build" -> 7
      [] call.pc = "spawn" -> 6
      [] call.pc = "wait" ->
            IF call.out_path \in DOMAIN outputs
               /\ outputs[call.out_path] = PartialOutput
            THEN 4 ELSE 5
      [] call.pc = "verify" -> 2
      [] call.pc = "cleanup" -> 1
      [] OTHER -> 0

\* an upper bound of the number of steps the batch run has left
C3Measure ==
    CASE batch.pc = "start" -> 20 * (Cardinality(files) + 1)
      [] batch.pc = "loop" ->
            20 * (Len(batch.video_files) + 1 - batch.idx) + 19
      [] batch.pc = "await" ->
            20 * (Len(batch.video_files) + 1 - batch.idx) + C3CallRank
      [] OTHER -> 0

\* a step brings the end of the run closer and does not leave the run stuck
\* before its end
C3Progress ==
    /\ C3Measure' < C3Measure
    /\ batch'.pc # "done" => (ENABLED Next)'

\* C3: batch_process_videos always completes (every step brings the end of the
\* run closer, and the run never stops before the end) and returns exactly one
\* result per enumerated video, in sorted path order, whatever the outcome of
\* each job; the success count is the number of results with success=true.
C3_BatchCompletesWithOneResultPerVideo ==
    []C3Safety /\ [][C3Progress]_vars

\* a finished batch of three videos in which a failed job is followed by a
\* successful one
C3_Witness ==
    /\ batch.pc = "done"
    /\ Len(batch.results) = 3
    /\ ~batch.results[1].success
    /\ ~IsSkip(batch.results[1])
    /\ batch.results[2].success
    /\ ~batch.results[3].success
    /\ batch.success_count = 1

\* the loop is at a video for which the locator finds no subtitle
AtVideoWithoutSubtitle ==
    /\ batch.pc = "loop"
    /\ batch.idx <= Len(batch.video_files)
    /\ find_matching_subtitle(files, batch.video_files[batch.idx],
                              batch.subtitle_lang) = Empty

C4Skip ==
    AtVideoWithoutSubtitle =>
        /\ batch'.pc = "loop"
        /\ batch'.idx = batch.idx + 1
        /\ batch'.results =
              Append(batch.results,
                     [success |-> FALSE,
                      error |-> <<"No ", batch.subtitle_lang, " subtitle found">>,
                      video_path |-> PathStr(batch.video_files[batch.idx])])
        /\ call' = call
        /\ log'.called = log.called

C4Counts ==
    /\ \A i \in 1..Len(batch.results) :
          IsSkip(batch.results[i]) <=> i \notin log.called
    /\ ( /\ batch.pc = "done"
         /\ Len(batch.video_files) = 3
         /\ Cardinality({i \in 1..3 : IsSkip(batch.results[i])}) = 1 ) =>
            /\ Len(batch.results) = 3
            /\ Cardinality(log.called) = 2

\* C4: a video without subtitle gets a failure result with the no-subtitle
\* reason, the orchestrator is not called for it and the loop continues; 3
\* videos of which exactly 1 lacks a subtitle give 3 results, 2 attempted jobs
\* and 1 skip.
C4_MissingSubtitleSkipsOneJob ==
    []C4Counts /\ [][C4Skip]_vars

\* three videos, the second without subtitle: skipped, the other two attempted
C4_Witness ==
    /\ batch.pc = "done"
    /\ Len(batch.results) = 3
    /\ IsSkip(batch.results[2])
    /\ log.called = {1, 3}
    /\ batch.results[3].success

\* C5: a job whose encoder does not finish within the timeout is ended by the
\* deadline: the subprocess is terminated, the result is a failure identifying
\* a timeout, the scratch file is removed, and the batch goes on to the next
\* video.
C5_TimeoutEndsJobAndBatchContinues ==
    /\ call.pc \in {"verify", "cleanup", "returned"} => call.proc # "running"
    /\ (call.pc \in {"cleanup", "returned"} /\ call.proc = "killed") =>
          /\ ~call.result.success
          /\ IsTimeout(call.result)
    /\ (call.pc = "returned" /\ call.proc = "killed" /\ Converted) =>
          call.srt_path \notin DOMAIN tmpfiles
    /\ \A i \in 1..Len(batch.results) :
          IsTimeout(batch.results[i]) =>
              /\ ~batch.results[i].success
              /\ batch.idx > i
              /\ batch.pc = "done" => Len(batch.results) = Len(batch.video_files)

\* the first job converted a .vtt and timed out, the second job has run to
\* success after it, and no scratch file is left
C5_Witness ==
    /\ batch.pc = "done"
    /\ Len(batch.results) >= 2
    /\ IsTimeout(batch.results[1])
    /\ 1 \in DOMAIN log.scratch_of
    /\ batch.results[2].success
    /\ DOMAIN tmpfiles = {}

\* C7: the scratch file name is unique per job: two jobs of the same process
\* never use the same scratch path.
C7_ScratchPathUniquePerJob ==
    \A j1, j2 \in DOMAIN log.scratch_of :
        j1 # j2 => log.scratch_of[j1] # log.scratch_of[j2]

-----------------------------------------------------------------------------
(* Quality tiers and style builders: VideoProcessor._get_quality_settings,  *)
(* _build_subtitle_filter_simple, _color_to_hex, _build_subtitle_filter,    *)
(* _color_to_ass, and the argument list of _merge_with_ffmpeg               *)

DigitChars == <<"0", "1", "2", "3", "4", "5", "6", "7", "8", "9">>

\* str(n) of a natural number
RECURSIVE NatStr(_)
NatStr(n) ==
    IF n < 10 THEN <<DigitChars[n + 1]>>
    ELSE NatStr(n \div 10) \o <<DigitChars[(n % 10) + 1]>>

\* sep.join(parts)
RECURSIVE Join(_, _)
Join(parts, sep) ==
    IF Len(parts) = 0 THEN Empty
    ELSE IF Len(parts) = 1 THEN parts[1]
    ELSE parts[1] \o sep \o Join(Tail(parts), sep)

\* a dict is the sequence of its <<key, value>> items in insertion order
HasKey(d, k) == \E i \in 1..Len(d) : d[i][1] = k

Get(d, k) == d[CHOOSE i \in 1..Len(d) : d[i][1] = k][2]

\* {**d, **e}: the keys of d keep their place, new keys of e are appended
RECURSIVE DictMerge(_, _)
DictMerge(d, e) ==
    IF Len(e) = 0 THEN d
    ELSE LET k == e[1][1]
             d1 == IF HasKey(d, k)
                   THEN [i \in 1..Len(d) |-> IF d[i][1] = k THEN e[1] ELSE d[i]]
                   ELSE Append(d, e[1])
         IN  DictMerge(d1, Tail(e))

\* self.default_subtitle_style
default_subtitle_style ==
    << <<"fontsize", 24>>, <<"fontcolor", <<"w", "h", "i", "t", "e">>>>,
       <<"outline", 2>>, <<"outlinecolor", <<"b", "l", "a", "c", "k">>>>,
       <<"shadow", 1>>, <<"shadowcolor", <<"b", "l", "a", "c", "k">>>>,
       <<"shadowx", 1>>, <<"shadowy", 1>>,
       <<"fontname", <<"A", "r", "i", "a", "l">>>> >>

\* variant of the tier table whose fallback is the high tier
get_quality_settings_DefaultHigh(quality) ==
    CASE quality = "high" -> <<<<"l", "i", "b", "x", "2", "6", "4">>, <<"4", "0", "0", "0", "k">>>>
      [] quality = "medium" -> <<<<"l", "i", "b", "x", "2", "6", "4">>, <<"2", "5", "0", "0", "k">>>>
      [] quality = "low" -> <<<<"l", "i", "b", "x", "2", "6", "4">>, <<"1", "5", "0", "0", "k">>>>
      [] quality = "lossless" -> <<<<"l", "i", "b", "x", "2", "6", "4">>, Empty>>
      [] quality = "macos_optimized" -> <<<<"l", "i", "b", "x", "2", "6", "4">>, <<"3", "0", "0", "0", "k">>>>
      [] OTHER -> <<<<"l", "i", "b", "x", "2", "6", "4">>, <<"4", "0", "0", "0", "k">>>>

\* quality_map.get(quality, ('libx264', '2500k')); the bitrate None is Empty
get_quality_settings(quality) ==
    CASE quality = "high" -> <<<<"l", "i", "b", "x", "2", "6", "4">>, <<"4", "0", "0", "0", "k">>>>
      [] quality = "medium" -> <<<<"l", "i", "b", "x", "2", "6", "4">>, <<"2", "5", "0", "0", "k">>>>
      [] quality = "low" -> <<<<"l", "i", "b", "x", "2", "6", "4">>, <<"1", "5", "0", "0", "k">>>>
      [] quality = "lossless" -> <<<<"l", "i", "b", "x", "2", "6", "4">>, Empty>>
      [] quality = "macos_optimized" -> <<<<"l", "i", "b", "x", "2", "6", "4">>, <<"3", "0", "0", "0", "k">>>>
      [] OTHER -> <<<<"l", "i", "b", "x", "2", "6", "4">>, <<"2", "5", "0", "0", "k">>>>

\* _color_to_hex: color_map.get(color.lower(), 'ffffff')
color_to_hex(color) ==
    LET color_map ==
            << <<<<"w", "h", "i", "t", "e">>, <<"f", "f", "f", "f", "f", "f">>>>, <<<<"b", "l", "a", "c", "k">>, <<"0", "0", "0", "0", "0", "0">>>>,
               <<<<"r", "e", "d">>, <<"f", "f", "0", "0", "0", "0">>>>, <<<<"b", "l", "u", "e">>, <<"0", "0", "0", "0", "f", "f">>>>,
               <<<<"g", "r", "e", "e", "n">>, <<"0", "0", "f", "f", "0", "0">>>>, <<<<"y", "e", "l", "l", "o", "w">>, <<"f", "f", "f", "f", "0", "0">>>> >>
    IN  IF HasKey(color_map, Lower(color)) THEN Get(color_map, Lower(color))
        ELSE <<"f", "f", "f", "f", "f", "f">>

\* _color_to_ass: color_map.get(color.lower(), color)
color_to_ass(color) ==
    LET color_map ==
            << <<<<"w", "h", "i", "t", "e">>, <<"&", "H", "f", "f", "f", "f", "f", "f">>>>, <<<<"b", "l", "a", "c", "k">>, <<"&", "H", "0", "0", "0", "0", "0", "0">>>>,
               <<<<"r", "e", "d">>, <<"&", "H", "f", "f", "0", "0", "0", "0">>>>, <<<<"b", "l", "u", "e">>, <<"&", "H", "0", "0", "0", "0", "f", "f">>>>,
               <<<<"g", "r", "e", "e", "n">>, <<"&", "H", "0", "0", "f", "f", "0", "0">>>>, <<<<"y", "e", "l", "l", "o", "w">>, <<"&", "H", "f", "f", "f", "f", "0", "0">>>> >>
    IN  IF HasKey(color_map, Lower(color)) THEN Get(color_map, Lower(color))
        ELSE color

build_subtitle_filter_simple(style) ==
    LET parts ==
    (IF HasKey(style, "fontsize")
     THEN << <<"F", "o", "n", "t", "S", "i", "z", "e", "=">> \o NatStr(Get(style, "fontsize")) >> ELSE <<>>)
    \o (IF HasKey(style, "fontcolor")
        THEN << <<"P", "r", "i", "m", "a", "r", "y", "C", "o", "l", "o", "u", "r", "=", "&", "H">> \o color_to_hex(Get(style, "fontcolor")) >>
        ELSE <<>>)
    \o (IF HasKey(style, "outline")
        THEN << <<"O", "u", "t", "l", "i", "n", "e", "=">> \o NatStr(Get(style, "outline")) >> ELSE <<>>)
    \o (IF HasKey(style, "outlinecolor")
        THEN << <<"O", "u", "t", "l", "i", "n", "e", "C", "o", "l", "o", "u", "r", "=", "&", "H">> \o color_to_hex(Get(style, "outlinecolor")) >>
        ELSE <<>>)
    IN  IF parts # <<>> THEN Join(parts, <<",">>)
        ELSE <<"F", "o", "n", "t", "S", "i", "z", "e", "=", "2", "4", ",", "P", "r", "i", "m", "a", "r", "y", "C", "o", "l", "o", "u", "r", "=", "&", "H", "f", "f", "f", "f", "f", "f", ",", "O", "u", "t", "l", "i", "n", "e", "=", "2", ",", "O", "u", "t", "l", "i", "n", "e", "C", "o", "l", "o", "u", "r", "=", "&", "H", "0", "0", "0", "0", "0", "0">>

\* the list style_parts of _build_subtitle_filter, from item i of style.items() on
RECURSIVE style_parts(_, _)
style_parts(style, i) ==
    IF i > Len(style) THEN <<>>
    ELSE LET key == style[i][1]
             value == style[i][2]
             part ==
                 CASE key = "fontsize" -> << <<"F", "o", "n", "t", "S", "i", "z", "e", "=">> \o NatStr(value) >>
                   [] key = "fontcolor" -> << <<"P", "r", "i", "m", "a", "r", "y", "C", "o", "l", "o", "u", "r", "=">> \o color_to_ass(value) >>
                   [] key = "outline" -> << <<"O", "u", "t", "l", "i", "n", "e", "=">> \o NatStr(value) >>
                   [] key = "outlinecolor" -> << <<"O", "u", "t", "l", "i", "n", "e", "C", "o", "l", "o", "u", "r", "=">> \o color_to_ass(value) >>
                   [] key = "shadow" -> << <<"S", "h", "a", "d", "o", "w", "=">> \o NatStr(value) >>
                   [] key = "shadowcolor" -> << <<"B", "a", "c", "k", "C", "o", "l", "o", "u", "r", "=">> \o color_to_ass(value) >>
                   [] key = "fontname" -> << <<"F", "o", "n", "t", "n", "a", "m", "e", "=">> \o value >>
                   [] OTHER -> <<>>
         IN  part \o style_parts(style, i + 1)

build_subtitle_filter(srt_path, style) == Join(style_parts(style, 1), <<",">>)

\* variant of the list cmd with the bitrate pair in front of the output path
ffmpeg_cmd_BitrateFirst(video_path, srt_path, output_path, style, quality) ==
    LET video_codec == get_quality_settings(quality)[1]
        bitrate == get_quality_settings(quality)[2]
        subtitle_style == build_subtitle_filter_simple(style)
        out == rewrite_output_path(output_path)
        cmd == << <<"f", "f", "m", "p", "e", "g">>,
                  <<"-", "i">>, video_path,
                  <<"-", "v", "f">>, <<"s", "u", "b", "t", "i", "t", "l", "e", "s", "=", "'">> \o srt_path \o <<"'", ":", "f", "o", "r", "c", "e", "_", "s", "t", "y", "l", "e", "=", "'">>
                               \o subtitle_style \o <<"'">>,
                  <<"-", "c", ":", "v">>, video_codec,
                  <<"-", "p", "r", "o", "f", "i", "l", "e", ":", "v">>, <<"b", "a", "s", "e", "l", "i", "n", "e">>,
                  <<"-", "l", "e", "v", "e", "l">>, <<"3", ".", "1">>,
                  <<"-", "p", "i", "x", "_", "f", "m", "t">>, <<"y", "u", "v", "4", "2", "0", "p">>,
                  <<"-", "p", "r", "e", "s", "e", "t">>, <<"m", "e", "d", "i", "u", "m">>,
                  <<"-", "c", ":", "a">>, <<"a", "a", "c">>,
                  <<"-", "m", "o", "v", "f", "l", "a", "g", "s">>, <<"+", "f", "a", "s", "t", "s", "t", "a", "r", "t">>,
                  <<"-", "f">>, <<"m", "p", "4">>,
                  <<"-", "y">> >>
    IN  IF bitrate # Empty THEN cmd \o << <<"-", "b", ":", "v">>, bitrate, out >>
        ELSE Append(cmd, out)

\* the list cmd of _merge_with_ffmpeg (lines 215-246)
ffmpeg_cmd(video_path, srt_path, output_path, style, quality) ==
    LET video_codec == get_quality_settings(quality)[1]
        bitrate == get_quality_settings(quality)[2]
        subtitle_style == build_subtitle_filter_simple(style)
        out == rewrite_output_path(output_path)
        cmd == << <<"f", "f", "m", "p", "e", "g">>,
                  <<"-", "i">>, video_path,
                  <<"-", "v", "f">>, <<"s", "u", "b", "t", "i", "t", "l", "e", "s", "=", "'">> \o srt_path \o <<"'", ":", "f", "o", "r", "c", "e", "_", "s", "t", "y", "l", "e", "=", "'">>
                               \o subtitle_style \o <<"'">>,
                  <<"-", "c", ":", "v">>, video_codec,
                  <<"-", "p", "r", "o", "f", "i", "l", "e", ":", "v">>, <<"b", "a", "s", "e", "l", "i", "n", "e">>,
                  <<"-", "l", "e", "v", "e", "l">>, <<"3", ".", "1">>,
                  <<"-", "p", "i", "x", "_", "f", "m", "t">>, <<"y", "u", "v", "4", "2", "0", "p">>,
                  <<"-", "p", "r", "e", "s", "e", "t">>, <<"m", "e", "d", "i", "u", "m">>,
                  <<"-", "c", ":", "a">>, <<"a", "a", "c">>,
                  <<"-", "m", "o", "v", "f", "l", "a", "g", "s">>, <<"+", "f", "a", "s", "t", "s", "t", "a", "r", "t">>,
                  <<"-", "f">>, <<"m", "p", "4">>,
                  <<"-", "y">>,
                  out >>
    IN  IF bitrate # Empty THEN cmd \o << <<"-", "b", ":", "v">>, bitrate >> ELSE cmd

\* s.startswith(prefix)
StartsWith(s, prefix) ==
    /\ Len(prefix) <= Len(s)
    /\ SubSeq(s, 1, Len(prefix)) = prefix

\* s.find(sub) + 1 : the 1-based index of the first occurrence of sub, 0 if none
Find(s, sub) ==
    LET hits == {i \in 1..(Len(s) - Len(sub) + 1) : SubSeq(s, i, i + Len(sub) - 1) = sub}
    IN  IF hits = {} THEN 0 ELSE CHOOSE i \in hits : \A j \in hits : i <= j

\* sub in s
Contains(s, sub) == Len(sub) = 0 \/ Find(s, sub) # 0

\* s.split(sep) for a non-empty separator
RECURSIVE Split(_, _)
Split(s, sep) ==
    LET i == Find(s, sep)
    IN  IF i = 0 THEN <<s>>
        ELSE <<SubSeq(s, 1, i - 1)>> \o Split(SubSeq(s, i + Len(sep), Len(s)), sep)

-----------------------------------------------------------------------------
(* One call of a command or style builder on arbitrary arguments           *)

ColourNames ==
    { <<"w", "h", "i", "t", "e">>, <<"b", "l", "a", "c", "k">>, <<"r", "e", "d">>, <<"b", "l", "u", "e">>, <<"g", "r", "e", "e", "n">>, <<"y", "e", "l", "l", "o", "w">>,
      <<"R", "e", "d">>, <<"Y", "E", "L", "L", "O", "W">>, <<"p", "u", "r", "p", "l", "e">> }

QualityNames == {"high", "medium", "low", "lossless", "macos_optimized", "ultra", "HIGH"}

\* the style arguments of the builders: the subtitle_style of a caller merged
\* with the defaults as on line 176, or passed as it is by a direct caller
BuilderStyles ==
    LET subtitle_styles ==
            {<<>>}
            \cup {<< <<"fontcolor", c>> >> : c \in ColourNames}
            \cup {<< <<"shadowcolor", c>>, <<"outlinecolor", d>> >> :
                     c \in ColourNames, d \in {<<"b", "l", "a", "c", "k">>, <<"R", "e", "d">>, <<"p", "u", "r", "p", "l", "e">>}}
    IN  {DictMerge(default_subtitle_style, u) : u \in subtitle_styles}
        \cup subtitle_styles

InitCommand ==
    /\ query \in
         [pc : {"call"}, fn : {"_merge_with_ffmpeg"},
          video_path : {Str_in_a_mp4},
          srt_path : {PathStr(SubZhSrt), scratch_path},
          output_path : {<<"o", "/", "v", ".", "m", "p", "4">>, <<"o", "/", "c", "l", "i", "p", ".", "m", "k", "v">>},
          style : BuilderStyles, quality : QualityNames]
         \cup
         [pc : {"call"}, fn : {"_build_subtitle_filter"},
          srt_path : {PathStr(SubZhSrt), scratch_path},
          style : BuilderStyles]
    /\ files = {}
    /\ tmpfiles = <<>>
    /\ outputs = <<>>
    /\ dirs = {}
    /\ call = IdleCall
    /\ batch = NoBatch
    /\ log = NoLog

\* _merge_with_ffmpeg, lines 215-246: the command is built
MergeCommand ==
    /\ query.pc = "call"
    /\ query.fn = "_merge_with_ffmpeg"
    /\ query' = [pc |-> "returned", fn |-> query.fn,
                 video_path |-> query.video_path,
                 srt_path |-> query.srt_path,
                 output_path |-> query.output_path,
                 style |-> query.style, quality |-> query.quality,
                 subtitle_style |-> build_subtitle_filter_simple(query.style),
                 cmd |-> ffmpeg_cmd(query.video_path, query.srt_path,
                                    query.output_path, query.style, query.quality)]
    /\ UNCHANGED <<files, tmpfiles, outputs, dirs, call, batch, log>>

\* _build_subtitle_filter, lines 319-338
FullFilter ==
    /\ query.pc = "call"
    /\ query.fn = "_build_subtitle_filter"
    /\ query' = [pc |-> "returned", fn |-> query.fn,
                 srt_path |-> query.srt_path, style |-> query.style,
                 result |-> build_subtitle_filter(query.srt_path, query.style)]
    /\ UNCHANGED <<files, tmpfiles, outputs, dirs, call, batch, log>>

NextCommand == MergeCommand \/ FullFilter

SpecCommand == InitCommand /\ [][NextCommand]_vars

-----------------------------------------------------------------------------
(* Claims about the quality tiers and the style builders                   *)

C11Expected(quality) ==
    CASE quality = "high" -> <<"4", "0", "0", "0", "k">>
      [] quality = "low" -> <<"1", "5", "0", "0", "k">>
      [] quality = "macos_optimized" -> <<"3", "0", "0", "0", "k">>
      [] OTHER -> <<"2", "5", "0", "0", "k">>

C11BitrateAt(cmd) == {k \in 1..Len(cmd) : cmd[k] = <<"-", "b", ":", "v">>}

C12Hex(name) ==
    CASE name = <<"w", "h", "i", "t", "e">> -> <<"f", "f", "f", "f", "f", "f">>
      [] name = <<"b", "l", "a", "c", "k">> -> <<"0", "0", "0", "0", "0", "0">>
      [] name = <<"r", "e", "d">> -> <<"f", "f", "0", "0", "0", "0">>
      [] name = <<"b", "l", "u", "e">> -> <<"0", "0", "0", "0", "f", "f">>
      [] name = <<"g", "r", "e", "e", "n">> -> <<"0", "0", "f", "f", "0", "0">>
      [] name = <<"y", "e", "l", "l", "o", "w">> -> <<"f", "f", "f", "f", "0", "0">>
      [] OTHER -> <<"f", "f", "f", "f", "f", "f">>

\* the directives of the builder that has returned
C12Emitted ==
    IF query.fn = "_merge_with_ffmpeg" THEN Split(query.subtitle_style, <<",">>)
    ELSE Split(query.result, <<",">>)

\* the colour directive a style key is turned into, by the builder that ran
C12Directive(key) ==
    CASE key = "fontcolor" -> <<"P", "r", "i", "m", "a", "r", "y", "C", "o", "l", "o", "u", "r", "=">>
      [] key = "outlinecolor" -> <<"O", "u", "t", "l", "i", "n", "e", "C", "o", "l", "o", "u", "r", "=">>
      [] key = "shadowcolor" /\ query.fn = "_build_subtitle_filter" -> <<"B", "a", "c", "k", "C", "o", "l", "o", "u", "r", "=">>
      [] OTHER -> Empty

\* C12: every colour given in the style is emitted as its directive followed
\* by &H and the table value of the lower-cased name, white (ffffff) for a name
\* outside the table, and every colour directive emitted is of that form
C12_ClosedColourTable ==
    query.pc = "returned" =>
        /\ \A i \in 1..Len(query.style) :
              C12Directive(query.style[i][1]) # Empty =>
                  \E p \in 1..Len(C12Emitted) :
                      C12Emitted[p] = C12Directive(query.style[i][1]) \o <<"&", "H">>
                                        \o C12Hex(Lower(query.style[i][2]))
        /\ \A p \in 1..Len(C12Emitted) :
              \A d \in {<<"P", "r", "i", "m", "a", "r", "y", "C", "o", "l", "o", "u", "r", "=">>, <<"O", "u", "t", "l", "i", "n", "e", "C", "o", "l", "o", "u", "r", "=">>, <<"B", "a", "c", "k", "C", "o", "l", "o", "u", "r", "=">>} :
                  StartsWith(C12Emitted[p], d) =>
                      \E name \in ColourNames :
                          C12Emitted[p] = d \o <<"&", "H">> \o C12Hex(name)
-----------------------------------------------------------------------------
(* Python float arithmetic (IEEE 754 binary64, round to nearest, ties to    *)
(* even) on the non-negative values of the timestamps.  A value is held as  *)
(* the binary numeral of value * 2^FracBits: the sequence of its bits, most *)
(* significant first, without leading zeros.  A binary64 value of magnitude *)
(* 2^-10 or more is a whole multiple of 2^-62, so every value of the model  *)
(* (whole milliseconds, and their sums and differences) is held exactly.    *)

FracBits == 64

\* the binary numeral of a natural number
RECURSIVE BNat(_)
BNat(n) == IF n = 0 THEN <<>> ELSE BNat(n \div 2) \o <<n % 2>>

\* without the leading zeros
BStrip(b) ==
    LET ones == {i \in 1..Len(b) : b[i] = 1}
    IN  IF ones = {} THEN <<>>
        ELSE SubSeq(b, CHOOSE i \in ones : \A j \in ones : i <= j, Len(b))

BPad(b, n) == [i \in 1..n |-> IF i <= n - Len(b) THEN 0 ELSE b[i - (n - Len(b))]]

BLess(a, b) ==
    \/ Len(a) < Len(b)
    \/ /\ Len(a) = Len(b)
       /\ \E i \in 1..Len(a) : a[i] < b[i] /\ \A j \in 1..(i - 1) : a[j] = b[j]

\* the carry into bit k of x + y: some lower bit generates a carry and every
\* bit between propagates it
BCarry(x, y, k) ==
    \E j \in (k + 1)..Len(x) :
        /\ x[j] = 1 /\ y[j] = 1
        /\ \A m \in (k + 1)..(j - 1) : x[m] + y[m] = 1

BAdd(a, b) ==
    LET n == (IF Len(a) >= Len(b) THEN Len(a) ELSE Len(b)) + 1
        x == BPad(a, n)
        y == BPad(b, n)
    IN  BStrip([k \in 1..n |->
                   (x[k] + y[k] + (IF BCarry(x, y, k) THEN 1 ELSE 0)) % 2])

\* the borrow from bit k of x - y
BBorrow(x, y, k) ==
    \E j \in (k + 1)..Len(x) :
        /\ x[j] = 0 /\ y[j] = 1
        /\ \A m \in (k + 1)..(j - 1) : x[m] = y[m]

\* a - b for b <= a
BSub(a, b) ==
    LET y == BPad(b, Len(a))
    IN  BStrip([k \in 1..Len(a) |->
                   (a[k] + 2 - y[k] - (IF BBorrow(a, y, k) THEN 1 ELSE 0)) % 2])

\* 2^j mod d for j <= 90 and d <= 10000
Pow2Mod(j, d) ==
    IF j <= 30 THEN (2 ^ j) % d
    ELSE IF j <= 60 THEN (((2 ^ 30) % d) * ((2 ^ (j - 30)) % d)) % d
    ELSE (((((2 ^ 30) % d) * ((2 ^ 30) % d)) % d) * ((2 ^ (j - 60)) % d)) % d

\* n * 2^FracBits divided by d, for naturals n and d <= 10000:
\* <<quotient as a binary numeral, whether the remainder is non-zero>>
BScaledDiv(n, d) ==
    LET r0 == n % d
        rem(j) == (r0 * Pow2Mod(j, d)) % d
        frac == [j \in 1..FracBits |-> IF 2 * rem(j - 1) >= d THEN 1 ELSE 0]
    IN  <<BStrip(BNat(n \div d) \o frac), rem(FracBits) # 0>>

\* rounding to 53 significant bits, nearest, ties to even; sticky tells
\* that a non-zero part below the last bit of b was cut off already
Round53(b, sticky) ==
    IF Len(b) <= 53 THEN b
    ELSE LET keep == SubSeq(b, 1, 53)
             guard == b[54]
             rest == sticky \/ \E i \in 55..Len(b) : b[i] = 1
             up == guard = 1 /\ (rest \/ keep[53] = 1)
             mant == IF up THEN BAdd(keep, <<1>>) ELSE keep
         IN  mant \o BPad(<<>>, Len(b) - 53)

IsDigit(c) == \E i \in 1..10 : DigitChars[i] = c

DigitVal(c) == (CHOOSE i \in 1..10 : DigitChars[i] = c) - 1

\* the value of a string of decimal digits
RECURSIVE DecVal(_)
DecVal(s) ==
    IF s = <<>> THEN 0
    ELSE 10 * DecVal(SubSeq(s, 1, Len(s) - 1)) + DigitVal(s[Len(s)])

\* the strings int() accepts among those of the model: decimal digits
IsIntStr(s) == s # <<>> /\ \A i \in 1..Len(s) : IsDigit(s[i])

\* the strings float() accepts among those of the model: decimal digits with
\* at most one dot and at least one digit
IsFloatStr(s) ==
    /\ \E i \in 1..Len(s) : IsDigit(s[i])
    /\ \A i \in 1..Len(s) : IsDigit(s[i]) \/ s[i] = "."
    /\ Cardinality({i \in 1..Len(s) : s[i] = "."}) <= 1

\* float(s): the binary64 value nearest to the decimal numeral
FloatOfStr(s) ==
    LET dot == Find(s, <<".">>)
        int_digits == IF dot = 0 THEN s ELSE SubSeq(s, 1, dot - 1)
        frac_digits == IF dot = 0 THEN <<>> ELSE SubSeq(s, dot + 1, Len(s))
        qr == BScaledDiv(DecVal(int_digits \o frac_digits), 10 ^ Len(frac_digits))
    IN  Round53(qr[1], qr[2])

\* x - y >= z on floats, for z > 0
FloatDiffAtLeast(x, y, z) ==
    /\ ~BLess(x, y)
    /\ ~BLess(Round53(BSub(x, y), FALSE), z)
-----------------------------------------------------------------------------
(* SubtitleConverter: string and regular-expression helpers               *)

\* the characters str.strip(), str.split() and \s take for whitespace
IsSpace(c) == c \in {" ", "\t", "\r", "\n"}

\* \w on the characters of the model
IsWord(c) ==
    \/ IsDigit(c)
    \/ c = "_"
    \/ \E i \in 1..26 : UpperChars[i] = c \/ LowerChars[i] = c

\* s.strip()
Strip(s) ==
    LET solid == {i \in 1..Len(s) : ~IsSpace(s[i])}
    IN  IF solid = {} THEN Empty
        ELSE SubSeq(s, CHOOSE i \in solid : \A j \in solid : i <= j,
                       CHOOSE i \in solid : \A j \in solid : j <= i)

\* s.split()[0] for a string with a character that is not whitespace
FirstToken(s) ==
    LET t == Strip(s)
        gaps == {i \in 1..Len(t) : IsSpace(t[i])}
    IN  IF gaps = {} THEN t
        ELSE SubSeq(t, 1, (CHOOSE i \in gaps : \A j \in gaps : i <= j) - 1)

\* s[i:].startswith(lit), i counted from 1
At(s, i, lit) ==
    /\ i + Len(lit) - 1 <= Len(s)
    /\ SubSeq(s, i, i + Len(lit) - 1) = lit

\* the index of the first ch at or after position i, 0 if none
NextIndex(s, ch, i) ==
    LET hits == {k \in i..Len(s) : s[k] = ch}
    IN  IF hits = {} THEN 0 ELSE CHOOSE k \in hits : \A j \in hits : k <= j

\* the length of the longest run of characters of a class starting at i
Run(s, i, class) ==
    LET InClass(c) == CASE class = "\\w" -> IsWord(c)
                        [] class = "\\d" -> IsDigit(c)
                        [] class = "\\s" -> IsSpace(c)
        stops == {k \in i..Len(s) : ~InClass(s[k])}
    IN  IF stops = {} THEN Len(s) - i + 1
        ELSE (CHOOSE k \in stops : \A j \in stops : k <= j) - i

\* the length of the match of a pattern of the code at position i, 0 if the
\* pattern does not match there (no pattern of the code matches the empty string)
MatchLen(pat, s, i) ==
    CASE pat = "<[^>]*>" ->
            IF s[i] = "<" /\ NextIndex(s, ">", i + 1) # 0
            THEN NextIndex(s, ">", i + 1) - i + 1 ELSE 0
      [] pat = "&lt;[^&]*&gt;" ->
            IF /\ At(s, i, <<"&", "l", "t", ";">>)
               /\ NextIndex(s, "&", i + 4) # 0
               /\ At(s, NextIndex(s, "&", i + 4), <<"&", "g", "t", ";">>)
            THEN NextIndex(s, "&", i + 4) + 4 - i ELSE 0
      [] pat = "<\\d{2}:\\d{2}:\\d{2}\\.\\d{3}>" ->
            IF /\ i + 13 <= Len(s)
               /\ s[i] = "<" /\ s[i + 3] = ":" /\ s[i + 6] = ":"
               /\ s[i + 9] = "." /\ s[i + 13] = ">"
               /\ \A k \in {1, 2, 4, 5, 7, 8, 10, 11, 12} : IsDigit(s[i + k])
            THEN 14 ELSE 0
      [] pat = "align:\\w+" ->
            IF At(s, i, <<"a", "l", "i", "g", "n", ":">>) /\ Run(s, i + 6, "\\w") > 0
            THEN 6 + Run(s, i + 6, "\\w") ELSE 0
      [] pat = "position:\\d+%" ->
            IF /\ At(s, i, <<"p", "o", "s", "i", "t", "i", "o", "n", ":">>)
               /\ Run(s, i + 9, "\\d") > 0
               /\ At(s, i + 9 + Run(s, i + 9, "\\d"), <<"%">>)
            THEN 10 + Run(s, i + 9, "\\d") ELSE 0
      [] pat = "align:.*" ->
            IF At(s, i, <<"a", "l", "i", "g", "n", ":">>) THEN Len(s) - i + 1 ELSE 0
      [] pat = "\\s+" -> Run(s, i, "\\s")

\* re.sub(pat, repl, s) from position i on: the matches are replaced from left
\* to right
RECURSIVE ReSub(_, _, _, _)
ReSub(pat, repl, s, i) ==
    IF i > Len(s) THEN Empty
    ELSE IF MatchLen(pat, s, i) > 0
         THEN repl \o ReSub(pat, repl, s, i + MatchLen(pat, s, i))
         ELSE <<s[i]>> \o ReSub(pat, repl, s, i + 1)

\* s.replace(old, new) from position i on, also re.sub of a pattern without
\* special characters
RECURSIVE Replace(_, _, _, _)
Replace(s, old, new, i) ==
    IF i > Len(s) THEN Empty
    ELSE IF At(s, i, old)
         THEN new \o Replace(s, old, new, i + Len(old))
         ELSE <<s[i]>> \o Replace(s, old, new, i + 1)

-----------------------------------------------------------------------------
(* SubtitleConverter: the helpers of _convert_vtt_to_srt_content            *)

Arrow == <<"-", "-", ">">>

\* _convert_vtt_timestamp_to_srt
convert_vtt_timestamp_to_srt(vtt_timestamp) ==
    Replace(Strip(ReSub("align:.*", Empty, vtt_timestamp, 1)), <<".">>, <<",">>, 1)

\* _clean_subtitle_text
clean_subtitle_text(text) ==
    LET t1 == ReSub("<[^>]*>", Empty, text, 1)
        t2 == ReSub("&lt;[^&]*&gt;", Empty, t1, 1)
        t3 == ReSub("<\\d{2}:\\d{2}:\\d{2}\\.\\d{3}>", Empty, t2, 1)
        t4 == ReSub("align:\\w+", Empty, t3, 1)
        t5 == ReSub("position:\\d+%", Empty, t4, 1)
        t6 == Replace(t5, <<"&", "a", "m", "p", ";">>, <<"&">>, 1)
        t7 == Replace(t6, <<"&", "q", "u", "o", "t", ";">>, <<"\"">>, 1)
        t8 == Replace(t7, <<"&", "l", "t", ";">>, <<"<">>, 1)
        t9 == Replace(t8, <<"&", "g", "t", ";">>, <<">">>, 1)
    IN  Strip(ReSub("\\s+", <<" ">>, t9, 1))

\* variant of the duplicate test that looks for equal lines only
is_duplicate_line_EqualOnly(new_text, existing_lines) ==
    \/ new_text = Empty
    \/ \E k \in 1..Len(existing_lines) : new_text = existing_lines[k]

\* _is_duplicate_line
is_duplicate_line(new_text, existing_lines) ==
    \/ new_text = Empty
    \/ \E k \in 1..Len(existing_lines) :
          \/ new_text = existing_lines[k]
          \/ Contains(existing_lines[k], new_text)
          \/ Contains(new_text, existing_lines[k])

\* time_to_seconds raises no exception on time_str
TimeParses(time_str) ==
    LET parts == Split(time_str, <<":">>)
    IN  /\ Len(parts) >= 3
        /\ IsIntStr(parts[1])
        /\ IsIntStr(parts[2])
        /\ IsFloatStr(parts[3])

\* time_to_seconds: hours * 3600 + minutes * 60 + seconds, the integer taken
\* to a float without rounding, the sum rounded
time_to_seconds(time_str) ==
    LET parts == Split(time_str, <<":">>)
        whole == DecVal(parts[1]) * 3600 + DecVal(parts[2]) * 60
    IN  Round53(BAdd(BNat(whole) \o BPad(<<>>, FracBits), FloatOfStr(parts[3])), FALSE)

\* _is_valid_duration: every exception of the try block gives True
is_valid_duration(timestamp_line) ==
    LET times == Split(timestamp_line, Arrow)
    IN  IF Len(times) # 2 THEN FALSE
        ELSE IF Strip(times[1]) = Empty \/ Strip(times[2]) = Empty THEN TRUE
        ELSE IF ~TimeParses(FirstToken(times[1])) \/ ~TimeParses(FirstToken(times[2]))
        THEN TRUE
        ELSE FloatDiffAtLeast(time_to_seconds(FirstToken(times[2])),
                              time_to_seconds(FirstToken(times[1])),
                              FloatOfStr(<<"0", ".", "1">>))

\* the index at which the inner loops of lines 47 and 54 stop when started at
\* index k: the first line from k on that is blank after strip(), or len(lines)
block_end(lines, k) ==
    LET blanks == {m \in k..(Len(lines) - 1) : Strip(lines[m + 1]) = Empty}
    IN  IF blanks = {} THEN Len(lines)
        ELSE CHOOSE m \in blanks : \A j \in blanks : m <= j

\* variant of the inner loop in which a line that contains a kept line takes
\* the place of that line
RECURSIVE collect_text_KeepsLonger(_, _, _, _)
collect_text_KeepsLonger(lines, k, stop, subtitle_text) ==
    IF k >= stop THEN subtitle_text
    ELSE LET text == Strip(lines[k + 1])
             cleaned_text == clean_subtitle_text(text)
             extends == {j \in 1..Len(subtitle_text) :
                            /\ cleaned_text # subtitle_text[j]
                            /\ Contains(cleaned_text, subtitle_text[j])}
         IN  IF \/ text = Empty
                \/ StartsWith(text, <<"N", "O", "T", "E">>)
                \/ StartsWith(text, <<"K", "i", "n", "d", ":">>)
                \/ StartsWith(text, <<"L", "a", "n", "g", "u", "a", "g", "e", ":">>)
                \/ cleaned_text = Empty
             THEN collect_text_KeepsLonger(lines, k + 1, stop, subtitle_text)
             ELSE IF extends # {}
             THEN collect_text_KeepsLonger(lines, k + 1, stop,
                      [j \in 1..Len(subtitle_text) |->
                          IF j \in extends THEN cleaned_text ELSE subtitle_text[j]])
             ELSE IF ~is_duplicate_line(cleaned_text, subtitle_text)
             THEN collect_text_KeepsLonger(lines, k + 1, stop,
                                           Append(subtitle_text, cleaned_text))
             ELSE collect_text_KeepsLonger(lines, k + 1, stop, subtitle_text)

\* lines 54-60: the list subtitle_text after the lines k .. stop-1 were read
RECURSIVE collect_text(_, _, _, _)
collect_text(lines, k, stop, subtitle_text) ==
    IF k >= stop THEN subtitle_text
    ELSE LET text == Strip(lines[k + 1])
             cleaned_text == clean_subtitle_text(text)
         IN  IF /\ text # Empty
                /\ ~StartsWith(text, <<"N", "O", "T", "E">>)
                /\ ~StartsWith(text, <<"K", "i", "n", "d", ":">>)
                /\ ~StartsWith(text, <<"L", "a", "n", "g", "u", "a", "g", "e", ":">>)
                /\ cleaned_text # Empty
                /\ ~is_duplicate_line(cleaned_text, subtitle_text)
             THEN collect_text(lines, k + 1, stop, Append(subtitle_text, cleaned_text))
             ELSE collect_text(lines, k + 1, stop, subtitle_text)

\* variant of the test of line 62 that lets every cue through
worth_emitting_Always(subtitle_text) == TRUE

\* line 62: subtitle_text and any(len(text.strip()) > 1 for text in subtitle_text)
worth_emitting(subtitle_text) ==
    /\ subtitle_text # <<>>
    /\ \E k \in 1..Len(subtitle_text) : Len(Strip(subtitle_text[k])) > 1

-----------------------------------------------------------------------------
(* One call of _convert_vtt_to_srt_content on a caption track               *)

MaxCues == 3

\* the timing lines of the tracks
Ts ==
    [ two_seconds |-> <<"0", "0", ":", "0", "0", ":", "0", "1", ".", "0", "0", "0", " ", "-", "-", ">", " ", "0", "0", ":", "0", "0", ":", "0", "3", ".", "0", "0", "0">>,
      later |-> <<"0", "0", ":", "0", "0", ":", "0", "4", ".", "0", "0", "0", " ", "-", "-", ">", " ", "0", "0", ":", "0", "0", ":", "0", "6", ".", "0", "0", "0">>,
      ten_millis |-> <<"0", "0", ":", "0", "0", ":", "0", "3", ".", "0", "0", "0", " ", "-", "-", ">", " ", "0", "0", ":", "0", "0", ":", "0", "3", ".", "0", "1", "0">>,
      tenth_a |-> <<"0", "0", ":", "0", "0", ":", "0", "0", ".", "2", "0", "0", " ", "-", "-", ">", " ", "0", "0", ":", "0", "0", ":", "0", "0", ".", "3", "0", "0">>,
      tenth_b |-> <<"0", "0", ":", "0", "0", ":", "0", "1", ".", "0", "0", "0", " ", "-", "-", ">", " ", "0", "0", ":", "0", "0", ":", "0", "1", ".", "1", "0", "0">>,
      aligned |-> <<"0", "0", ":", "0", "0", ":", "0", "1", ".", "5", "0", "0", " ", "-", "-", ">", " ", "0", "0", ":", "0", "0", ":", "0", "3", ".", "2", "5", "0", " ", "a", "l", "i", "g", "n", ":", "s", "t", "a", "r", "t", " ", "p", "o", "s", "i", "t", "i", "o", "n", ":", "0", "%">>,
      positioned |-> <<"0", "0", ":", "0", "0", ":", "0", "1", ".", "5", "0", "0", " ", "-", "-", ">", " ", "0", "0", ":", "0", "0", ":", "0", "3", ".", "2", "5", "0", " ", "p", "o", "s", "i", "t", "i", "o", "n", ":", "1", "0", "%", " ", "l", "i", "n", "e", ":", "0">>,
      backwards |-> <<"0", "0", ":", "0", "0", ":", "0", "5", ".", "0", "0", "0", " ", "-", "-", ">", " ", "0", "0", ":", "0", "0", ":", "0", "4", ".", "0", "0", "0">>,
      two_arrows |-> <<"0", "0", ":", "0", "0", ":", "0", "4", ".", "0", "0", "0", " ", "-", "-", ">", " ", "0", "0", ":", "0", "0", ":", "0", "5", ".", "0", "0", "0", " ", "-", "-", ">", " ", "0", "0", ":", "0", "0", ":", "0", "6", ".", "0", "0", "0">>,
      no_start |-> <<"-", "-", ">", " ", "0", "0", ":", "0", "0", ":", "0", "2", ".", "0", "0", "0">>,
      short_form |-> <<"0", ":", "0", "1", " ", "-", "-", ">", " ", "0", ":", "0", "2">> ]

TsLines == {Ts[f] : f \in DOMAIN Ts}

\* the text lines of a cue
TextBlocks ==
    { <<>>,
      << <<"H", "e", "l", "l", "o">> >>,
      << <<"H", "e", "l", "l", "o">>, <<"H", "e", "l", "l", "o", " ", "w", "o", "r", "l", "d">> >>,
      << <<"H", "e", "l", "l", "o", " ", "w", "o", "r", "l", "d">>, <<"H", "e", "l", "l", "o">>, <<"B", "y", "e">> >>,
      << <<"a">> >>,
      << <<"<", "c", ">", "H", "i", "<", "/", "c", ">", " ", "&", "a", "m", "p", ";", " ", "b", "y", "e">> >>,
      << <<"H", "e", "l", "l", "o", "<", "0", "0", ":", "0", "0", ":", "0", "1", ".", "1", "8", "9", ">", "<", "c", ">", " ", "w", "o", "r", "l", "d", "<", "/", "c", ">">>, <<"B", "y", "e">> >>,
      << <<"N", "O", "T", "E", " ", "x">>, <<"K", "i", "n", "d", ":", " ", "c", "a", "p", "t", "i", "o", "n", "s">>, <<" ", "B", "y", "e", " ">> >>,
      << <<"<", "c", ">", "<", "/", "c", ">">> >>,
      << <<"a", "l", "i", "g", "n", ":", "s", "t", "a", "r", "t", " ", "p", "o", "s", "i", "t", "i", "o", "n", ":", "0", "%", " ", "H", "i">> >> }

\* the cues that are combined into tracks of several cues; a cue is its
\* timing line and its text lines
CoreCues ==
    { [ts |-> Ts.two_seconds, text |-> << <<"H", "e", "l", "l", "o">> >>],
      [ts |-> Ts.aligned, text |-> << <<"H", "e", "l", "l", "o">>, <<"H", "e", "l", "l", "o", " ", "w", "o", "r", "l", "d">> >>],
      [ts |-> Ts.later, text |-> << <<"a">> >>],
      [ts |-> Ts.ten_millis, text |-> << <<"B", "y", "e">> >>] }

Tracks ==
    UNION {[1..n -> CoreCues] : n \in 0..MaxCues}
    \cup {<<[ts |-> ts, text |-> text]>> : ts \in TsLines, text \in TextBlocks}

\* the lines of the cues from cue k on, each cue followed by a blank line
RECURSIVE CueLines(_, _)
CueLines(track, k) ==
    IF k > Len(track) THEN <<>>
    ELSE <<track[k].ts>> \o track[k].text \o <<Empty>> \o CueLines(track, k + 1)

\* the text of the .vtt file of a track: the header, a blank line, the cues
Render(track) == Join(<< <<"W", "E", "B", "V", "T", "T">>, Empty >> \o CueLines(track, 1), <<"\n">>)

InitNormalize ==
    /\ \E track \in Tracks :
          query = [pc |-> "call", fn |-> "_convert_vtt_to_srt_content",
                   track |-> track, vtt_content |-> Render(track)]
    /\ files = {}
    /\ tmpfiles = <<>>
    /\ outputs = <<>>
    /\ dirs = {}
    /\ call = IdleCall
    /\ batch = NoBatch
    /\ log = NoLog

\* lines 33-36
ScanStart ==
    /\ query.pc = "call"
    /\ query.fn = "_convert_vtt_to_srt_content"
    /\ query' = [pc |-> "scan", fn |-> query.fn, track |-> query.track,
                 vtt_content |-> query.vtt_content,
                 lines |-> Split(query.vtt_content, <<"\n">>),
                 srt_lines |-> <<>>, subtitle_index |-> 1, i |-> 0]
    /\ UNCHANGED <<files, tmpfiles, outputs, dirs, call, batch, log>>

\* the line the outer loop looks at (line 39)
ScanAtLine ==
    /\ query.pc = "scan"
    /\ query.i < Len(query.lines)

ScanLineStripped == Strip(query.lines[query.i + 1])

\* lines 38-41 and 69: a line without the arrow is passed over
ScanOther ==
    /\ ScanAtLine
    /\ ~Contains(ScanLineStripped, Arrow)
    /\ query' = [query EXCEPT !.i = @ + 1]
    /\ UNCHANGED <<files, tmpfiles, outputs, dirs, call, batch, log>>

\* variant of the discard branch that continues the loop one line before the
\* timing line instead of after the text of the cue
ScanDiscard_Rewinds ==
    /\ ScanAtLine
    /\ Contains(ScanLineStripped, Arrow)
    /\ ~is_valid_duration(ScanLineStripped)
    /\ query' = [query EXCEPT !.i = @ - 1]
    /\ UNCHANGED <<files, tmpfiles, outputs, dirs, call, batch, log>>

\* lines 45-49: a cue of too short a duration is passed over with its text,
\* and the loop continues without the increment of line 69
ScanDiscard ==
    /\ ScanAtLine
    /\ Contains(ScanLineStripped, Arrow)
    /\ ~is_valid_duration(ScanLineStripped)
    /\ query' = [query EXCEPT !.i = block_end(query.lines, @ + 1)]
    /\ UNCHANGED <<files, tmpfiles, outputs, dirs, call, batch, log>>

\* lines 42 and 51-69: the text of the cue is read and the cue is written out
ScanCue ==
    /\ ScanAtLine
    /\ Contains(ScanLineStripped, Arrow)
    /\ is_valid_duration(ScanLineStripped)
    /\ LET timestamp == convert_vtt_timestamp_to_srt(ScanLineStripped)
           stop == block_end(query.lines, query.i + 1)
           subtitle_text == collect_text(query.lines, query.i + 1, stop, <<>>)
       IN  IF worth_emitting(subtitle_text)
           THEN query' = [query EXCEPT
                    !.srt_lines = @ \o <<NatStr(query.subtitle_index), timestamp>>
                                    \o subtitle_text \o <<Empty>>,
                    !.subtitle_index = @ + 1,
                    !.i = stop + 1]
           ELSE query' = [query EXCEPT !.i = stop + 1]
    /\ UNCHANGED <<files, tmpfiles, outputs, dirs, call, batch, log>>

\* line 71
ScanReturn ==
    /\ query.pc = "scan"
    /\ query.i >= Len(query.lines)
    /\ query' = [pc |-> "returned", fn |-> query.fn, track |-> query.track,
                 vtt_content |-> query.vtt_content,
                 result |-> Join(query.srt_lines, <<"\n">>)]
    /\ UNCHANGED <<files, tmpfiles, outputs, dirs, call, batch, log>>

NextNormalize == ScanStart \/ ScanOther \/ ScanDiscard \/ ScanCue \/ ScanReturn

SpecNormalize == InitNormalize /\ [][NextNormalize]_vars

-----------------------------------------------------------------------------
(* Claims about the caption normalizer                                      *)

Returned == query.pc = "returned" /\ query.fn = "_convert_vtt_to_srt_content"

\* the lines of the returned text
OutLines == Split(query.result, <<"\n">>)

\* the indices at which a block of non-blank lines of the output begins
OutStarts ==
    {k \in 1..Len(OutLines) :
        OutLines[k] # Empty /\ (k = 1 \/ OutLines[k - 1] = Empty)}

\* the end of the block that begins at index k
OutStop(k) ==
    LET blanks == {m \in k..Len(OutLines) : OutLines[m] = Empty}
    IN  IF blanks = {} THEN Len(OutLines)
        ELSE (CHOOSE m \in blanks : \A j \in blanks : m <= j) - 1

\* the cues of the output in their order, each the sequence of its lines
OutCues ==
    [j \in 1..Cardinality(OutStarts) |->
        LET k == CHOOSE k \in OutStarts :
                     Cardinality({m \in OutStarts : m < k}) = j - 1
        IN  SubSeq(OutLines, k, OutStop(k))]

\* the text lines of an output cue
OutText(cue) == SubSeq(cue, 3, Len(cue))

\* both ends of a timing line are of the form hours:minutes:seconds
WellTimed(ts) ==
    LET times == Split(ts, Arrow)
    IN  /\ Len(times) = 2
        /\ Strip(times[1]) # Empty
        /\ Strip(times[2]) # Empty
        /\ TimeParses(FirstToken(times[1]))
        /\ TimeParses(FirstToken(times[2]))

\* a time hours:minutes:seconds[.fraction] in whole milliseconds
MillisOf(time_str) ==
    LET parts == Split(time_str, <<":">>)
        dot == Find(parts[3], <<".">>)
        whole == IF dot = 0 THEN parts[3] ELSE SubSeq(parts[3], 1, dot - 1)
        frac == IF dot = 0 THEN <<>> ELSE SubSeq(parts[3], dot + 1, Len(parts[3]))
    IN  (DecVal(parts[1]) * 3600 + DecVal(parts[2]) * 60 + DecVal(whole)) * 1000
        + DecVal(SubSeq(frac \o <<"0", "0", "0">>, 1, 3))

StartMs(ts) == MillisOf(FirstToken(Split(ts, Arrow)[1]))

EndMs(ts) == MillisOf(FirstToken(Split(ts, Arrow)[2]))

\* the range of a timing line in the .srt notation
SrtRange(ts) ==
    Replace(FirstToken(Split(ts, Arrow)[1]), <<".">>, <<",">>, 1)
    \o <<" ", "-", "-", ">", " ">>
    \o Replace(FirstToken(Split(ts, Arrow)[2]), <<".">>, <<",">>, 1)

\* the text lines the scan keeps of a cue of the track
KeptText(cue) == collect_text(cue.text, 0, Len(cue.text), <<>>)

\* the output holds a cue with the range and the kept text of a cue of the track
EmittedWithRange(cue) ==
    \E j \in 1..Len(OutCues) :
        /\ StartsWith(OutCues[j][2], SrtRange(cue.ts))
        /\ OutText(OutCues[j]) = KeptText(cue)

\* C13: a cue with parseable times and a duration below 100 ms leaves neither
\* its range nor its text in the output, and a cue with parseable times and a
\* duration of 100 ms or more that has text worth emitting is in the output
C13_ShortCuesDropped ==
    Returned =>
        \A k \in 1..Len(query.track) :
            LET cue == query.track[k]
            IN  WellTimed(cue.ts) =>
                    IF EndMs(cue.ts) - StartMs(cue.ts) < 100
                    THEN /\ \A n \in 1..Len(OutLines) :
                               ~Contains(OutLines[n], SrtRange(cue.ts))
                         /\ \A n \in 1..Len(KeptText(cue)) :
                               (\E j \in 1..Len(OutCues) :
                                    \E m \in 3..Len(OutCues[j]) :
                                        OutCues[j][m] = KeptText(cue)[n])
                               => \E other \in 1..Len(query.track) :
                                     /\ EndMs(query.track[other].ts)
                                          - StartMs(query.track[other].ts) >= 100
                                     /\ \E m \in 1..Len(KeptText(query.track[other])) :
                                           KeptText(query.track[other])[m]
                                             = KeptText(cue)[n]
                    ELSE worth_emitting(KeptText(cue)) => EmittedWithRange(cue)

\* C14: a cue whose timing line holds the arrow but cannot be parsed into
\* hours, minutes and seconds at both ends is kept: when it has text worth
\* emitting, the output holds a cue with that text
C14_UnparseableRangeKept ==
    Returned =>
        \A k \in 1..Len(query.track) :
            LET cue == query.track[k]
            IN  (~WellTimed(cue.ts) /\ worth_emitting(KeptText(cue))) =>
                    \E j \in 1..Len(OutCues) : OutText(OutCues[j]) = KeptText(cue)

\* C15: within every cue of the output no text line is empty, and no text
\* line equals or is contained in another text line of the same cue
C15_TextLinesPairwiseNonContaining ==
    Returned =>
        \A j \in 1..Len(OutCues) :
            \A a, b \in 3..Len(OutCues[j]) :
                /\ OutCues[j][a] # Empty
                /\ a # b => ~Contains(OutCues[j][b], OutCues[j][a])

\* a cue with the lines Hello and Hello world was emitted with one text line
C15_Witness ==
    /\ Returned
    /\ \E k \in 1..Len(query.track) :
          /\ query.track[k].text = << <<"H", "e", "l", "l", "o">>, <<"H", "e", "l", "l", "o", " ", "w", "o", "r", "l", "d">> >>
          /\ \E j \in 1..Len(OutCues) : OutText(OutCues[j]) = << <<"H", "e", "l", "l", "o">> >>

\* the cues of the track are well formed: parseable times, a duration of
\* 100 ms or more, text lines that are not empty, text that differs from cue to cue
WellFormedTrack ==
    /\ \A k \in 1..Len(query.track) :
          /\ WellTimed(query.track[k].ts)
          /\ EndMs(query.track[k].ts) - StartMs(query.track[k].ts) >= 100
          /\ query.track[k].text # <<>>
          /\ \A n \in 1..Len(query.track[k].text) :
                Strip(query.track[k].text[n]) # Empty
    /\ \A k, m \in 1..Len(query.track) :
          k # m => query.track[k].text # query.track[m].text

\* C16: a track of well-formed cues with distinct text comes out with as many
\* cues as it has, cue k of the output carrying the range of cue k of the track
C16_WellFormedCuesPreserved ==
    (Returned /\ WellFormedTrack) =>
        /\ Len(OutCues) = Len(query.track)
        /\ \A k \in 1..Len(OutCues) :
              StartsWith(OutCues[k][2], SrtRange(query.track[k].ts))

\* C17: the cues of the output are numbered 1, 2, ... in their order, each is
\* an index line, a range line, one or more text lines and a blank line, and
\* nothing else is in the output
C17_ContiguousNumbering ==
    Returned =>
        /\ \A j \in 1..Len(OutCues) :
              /\ Len(OutCues[j]) >= 3
              /\ OutCues[j][1] = NatStr(j)
              /\ Contains(OutCues[j][2], Arrow)
        /\ \A k \in OutStarts :
              OutStop(k) < Len(OutLines) /\ OutLines[OutStop(k) + 1] = Empty
        /\ Len(OutLines) =
              (IF Len(OutCues) = 0 THEN 1 ELSE 0)
              + Cardinality(OutStarts)
              + Cardinality({n \in 1..Len(OutLines) : OutLines[n] # Empty})

\* a track of three cues whose second cue was discarded came out as cues 1 and 2
C17_Witness ==
    /\ Returned
    /\ Len(query.track) = 3
    /\ query.track[2].ts = Ts.ten_millis
    /\ Len(OutCues) = 2
    /\ OutCues[1][1] = <<"1">>
    /\ OutCues[2][1] = <<"2">>
    /\ StartsWith(OutCues[2][2], SrtRange(query.track[3].ts))

\* the range line of an output cue, back in the notation of the source
OutRange(cue) == Replace(cue[2], <<",">>, <<".">>, 1)

\* C18: the cues of the output with parseable times are in ascending order of
\* their start times, and each starts no later than it ends
C18_OrderedByStart ==
    Returned =>
        /\ \A j \in 1..Len(OutCues) :
              WellTimed(OutRange(OutCues[j])) =>
                  StartMs(OutRange(OutCues[j])) <= EndMs(OutRange(OutCues[j]))
        /\ \A j, k \in 1..Len(OutCues) :
              (j < k /\ WellTimed(OutRange(OutCues[j]))
                     /\ WellTimed(OutRange(OutCues[k]))) =>
                  StartMs(OutRange(OutCues[j])) <= StartMs(OutRange(OutCues[k]))

\* C19: the range line of an output cue that comes from a cue with parseable
\* times is exactly the range in the .srt notation, whatever positioning
\* directives follow the range in the source
C19_RangeLineWithoutDirectives ==
    Returned =>
        \A k \in 1..Len(query.track) :
            WellTimed(query.track[k].ts) =>
                \A j \in 1..Len(OutCues) :
                    StartsWith(OutCues[j][2], SrtRange(query.track[k].ts)) =>
                        OutCues[j][2] = SrtRange(query.track[k].ts)

-----------------------------------------------------------------------------
(* The merge command of the command line (cli.py): handle_merge and its    *)
(* two handlers, with and without --dry-run                                 *)

MaxCliVideos == 2

\* the state after argument parsing: the input tree, and args of the merge
\* sub-command (input, --output, --batch, --dry-run; --lang and --quality at
\* their defaults)
InitCli ==
    /\ \E n \in 0..MaxCliVideos :
       \E kinds \in [1..n -> {"none", "vtt", "srt"}] :
           files = {PartFile} \cup {BatchVideo(i) : i \in 1..n}
                   \cup UNION {Sidecars(i, kinds[i]) : i \in 1..n}
    /\ \E input \in {<<InDir>>, BatchVideo(1)},
          output \in {Empty, <<<<"o", "u", "t">>>>},
          batch_flag \in BOOLEAN,
          dry_run \in BOOLEAN :
            query = [pc |-> "handle_merge", fn |-> "handle_merge",
                     input |-> input, output |-> output,
                     lang |-> LangZhHans, quality |-> "high",
                     batch |-> batch_flag, dry_run |-> dry_run,
                     output_dir |-> Empty, printed |-> <<>>]
    /\ tmpfiles = <<>>
    /\ outputs = <<>>
    /\ dirs = {}
    /\ call = IdleCall
    /\ batch = NoBatch
    /\ log = NoLog

\* print(...): one more line on the terminal
Printed(line) == Append(query.printed, line)

\* handle_merge (lines 338-362): the output directory and the choice of handler
handle_merge ==
    /\ query.pc = "handle_merge"
    /\ LET input_path == query.input
           is_file == input_path \in files
           is_dir == \E f \in files : /\ Len(f) > Len(input_path)
                                      /\ SubSeq(f, 1, Len(input_path)) = input_path
           output_dir == IF query.output # Empty THEN query.output
                         ELSE Append(PathParent(input_path), <<"m", "e", "r", "g", "e", "d", "_", "v", "i", "d", "e", "o", "s">>)
       IN  IF ~(is_file \/ is_dir)
           THEN query' = [query EXCEPT !.pc = "done",
                              !.printed = Printed([error |-> "Input path does not exist"])]
           ELSE IF is_file
           THEN query' = [query EXCEPT !.pc = "single", !.output_dir = output_dir]
           ELSE IF query.batch
           THEN query' = [query EXCEPT !.pc = "batch", !.output_dir = output_dir]
           ELSE query' = [query EXCEPT !.pc = "done",
                              !.printed = Printed([error |-> "For directory input, use --batch flag"])]
    /\ UNCHANGED <<files, tmpfiles, outputs, dirs, call, batch, log>>

\* _handle_single_video_merge (lines 364-386), up to the orchestrator call
handle_single_video_merge ==
    /\ query.pc = "single"
    /\ LET video_path == query.input
           subtitle_file == find_matching_subtitle(files, video_path, query.lang)
           output_file == batch_output_file(query.output_dir, video_path)
       IN  IF subtitle_file = Empty
           THEN /\ query' = [query EXCEPT !.pc = "done",
                                 !.printed = Printed([error |-> "No subtitle found",
                                                      name |-> PathName(video_path)])]
                /\ UNCHANGED <<call, log>>
           ELSE IF query.dry_run
           THEN /\ query' = [query EXCEPT !.pc = "done",
                                 !.printed = Printed([would_merge |-> PathStr(video_path),
                                                      subtitle |-> PathStr(subtitle_file),
                                                      output |-> PathStr(output_file),
                                                      language |-> query.lang,
                                                      quality |-> query.quality])]
                /\ UNCHANGED <<call, log>>
           ELSE /\ call' = NewCall(1, PathStr(video_path), FALSE,
                                   PathStr(subtitle_file), PathStr(output_file),
                                   "default", query.quality)
                /\ log' = [log EXCEPT !.called = @ \cup {1}]
                /\ query' = [query EXCEPT !.pc = "merging",
                                 !.printed = Printed([merging |-> PathName(video_path)])]
    /\ UNCHANGED <<files, tmpfiles, outputs, dirs, batch>>

\* lines 388-396: the orchestrator has returned its result
single_video_merged ==
    /\ query.pc = "merging"
    /\ call.pc = "returned"
    /\ query' = [query EXCEPT !.pc = "done",
                     !.printed = Printed(IF call.result.success
                                         THEN [created |-> call.result.output_path]
                                         ELSE [failed |-> call.result.error])]
    /\ call' = IdleCall
    /\ UNCHANGED <<files, tmpfiles, outputs, dirs, batch, log>>

\* variant of the batch handler that does not look at --dry-run
handle_batch_video_merge_NoDryRun ==
    /\ query.pc = "batch"
    /\ batch' = [pc |-> "start", input_dir |-> query.input,
                 output_dir |-> query.output_dir,
                 subtitle_lang |-> query.lang,
                 subtitle_style |-> "default", video_quality |-> query.quality,
                 video_files |-> <<>>, idx |-> 1, results |-> <<>>,
                 success_count |-> 0]
    /\ query' = [query EXCEPT !.pc = "processing",
                     !.printed = Printed([starting |-> query.lang])]
    /\ UNCHANGED <<files, tmpfiles, outputs, dirs, call, log>>

\* _handle_batch_video_merge (lines 398-416): the dry run as a whole, or the
\* call of batch_process_videos
handle_batch_video_merge ==
    /\ query.pc = "batch"
    /\ IF query.dry_run
       THEN LET video_files == find_video_files(files, query.input)
                status(video_file) ==
                    [status |-> IF find_matching_subtitle(files, video_file,
                                                          query.lang) # Empty
                                THEN "present" ELSE "no subtitle",
                     name |-> PathName(video_file)]
            IN  /\ query' = [query EXCEPT !.pc = "done",
                                 !.printed = Printed([would_process |-> Len(video_files)])
                                     \o [i \in 1..Len(video_files) |->
                                            status(video_files[i])]]
                /\ batch' = batch
       ELSE /\ batch' = [pc |-> "start", input_dir |-> query.input,
                         output_dir |-> query.output_dir,
                         subtitle_lang |-> query.lang,
                         subtitle_style |-> "default",
                         video_quality |-> query.quality,
                         video_files |-> <<>>, idx |-> 1, results |-> <<>>,
                         success_count |-> 0]
            /\ query' = [query EXCEPT !.pc = "processing",
                             !.printed = Printed([starting |-> query.lang])]
    /\ UNCHANGED <<files, tmpfiles, outputs, dirs, call, log>>

\* line 418 and _print_merge_results (lines 423-437)
print_merge_results ==
    /\ query.pc = "processing"
    /\ batch.pc = "done"
    /\ query' = [query EXCEPT !.pc = "done",
                     !.printed = Printed([successful |-> batch.success_count,
                                          total |-> Len(batch.results)])]
    /\ UNCHANGED <<files, tmpfiles, outputs, dirs, call, batch, log>>

NextCli ==
    \/ handle_merge
    \/ handle_single_video_merge
    \/ single_video_merged
    \/ handle_batch_video_merge
    \/ print_merge_results
    \/ BatchStart
    \/ BatchNext
    \/ BatchCollect
    \/ BatchFinish
    \/ FileVanishes
    \/ MergeStep

SpecCli == InitCli /\ [][NextCli]_vars

-----------------------------------------------------------------------------
(* Properties of the dry run (checked under SpecCli)                        *)

\* the status lines of a dry run over a directory: all lines after the first
DryRunStatuses == SubSeq(query.printed, 2, Len(query.printed))

\* the report of a finished batch dry run: one line per video that
\* _find_video_files enumerates, in its order, saying whether the video has a
\* subtitle
DryRunReportExact ==
    LET video_files == find_video_files(files, query.input)
    IN  /\ Len(query.printed) = 1 + Len(video_files)
        /\ query.printed[1] = [would_process |-> Len(video_files)]
        /\ \A i \in 1..Len(video_files) :
              /\ DryRunStatuses[i].name = PathName(video_files[i])
              /\ DryRunStatuses[i].status = "present"
                    <=> find_matching_subtitle(files, video_files[i], query.lang) # Empty

-----------------------------------------------------------------------------
(* Properties of the results of a batch (checked under Spec)                *)

\* C21: every result in the list of batch_process_videos carries video_name
\* and subtitle_lang, whether the job succeeded, failed in the orchestrator or
\* was skipped for want of a subtitle.
C21_EveryResultNamed ==
    \A i \in 1..Len(batch.results) :
        /\ "video_name" \in DOMAIN batch.results[i]
        /\ "subtitle_lang" \in DOMAIN batch.results[i]

\* the encoder subprocess of the current orchestrator call is running
EncoderRunning == call.pc # "idle" /\ call.proc = "running"

\* C22: within a batch the encoder of job k runs only while the loop waits for
\* job k and the results of the k-1 earlier videos are in the list (so no two
\* encoders run at once); the list grows by one result at a time, at its end,
\* and only by the step of the loop that ends the current iteration, never
\* while an encoder runs.
C22_OneEncoderAtATime ==
    /\ [](call.pc # "idle" =>
             /\ batch.pc = "await"
             /\ call.job = batch.idx
             /\ Len(batch.results) = batch.idx - 1)
    /\ [][batch.results' # batch.results =>
             /\ Len(batch.results') = Len(batch.results) + 1
             /\ SubSeq(batch.results', 1, Len(batch.results)) = batch.results
             /\ batch.idx' = batch.idx + 1
             /\ batch.pc' = "loop"
             /\ ~EncoderRunning
             /\ ~EncoderRunning']_vars

\* the encoder of the second job runs, the result of the first job is in the list
C22_Witness ==
    /\ EncoderRunning
    /\ call.job = 2
    /\ Len(batch.results) = 1
    /\ "video_name" \in DOMAIN batch.results[1]

-----------------------------------------------------------------------------
(* Properties of the stages of one job (checked under SpecCall)             *)

\* the stages of merge_video_with_subtitles in the order of the code
StageRank ==
    [validate |-> 1, makedirs |-> 2, ensure_srt |-> 3, build |-> 4, spawn |-> 5,
     wait |-> 6, verify |-> 7, cleanup |-> 8, returned |-> 9]

\* the job has ended in a failure whose error starts with the message msg
FailedWith(msg) ==
    /\ call.pc = "returned"
    /\ ~call.result.success
    /\ call.result.error[1] = msg

\* C23: the stages of a job run in the order validate, normalize caption, build
\* command, invoke.  The encoder is started only if the video and the subtitle
\* exist and, for a .vtt subtitle, the conversion has produced the scratch file
\* that is handed to the encoder.  A missing video or subtitle ends the job in
\* a not-found failure with no scratch file created; a failed conversion ends
\* it in a conversion failure with the encoder never started.
C23_StagesInOrder ==
    /\ [][call'.pc # call.pc => StageRank[call'.pc] > StageRank[call.pc]]_vars
    /\ [](call.proc # "none" =>
             /\ Exists(call.video_path)
             /\ Exists(call.subtitle_path)
             /\ StageRank[call.pc] > StageRank["spawn"]
             /\ (EndsWith(call.subtitle_path, DotVtt) =>
                    /\ call.srt_path = scratch_path
                    /\ 1 \in DOMAIN log.scratch_of))
    /\ []((call.pc = "returned" /\ ~Exists(call.video_path)) =>
             /\ FailedWith("Video file not found")
             /\ call.proc = "none"
             /\ tmpfiles = <<>> /\ log.scratch_of = <<>>)
    /\ []((call.pc = "returned" /\ Exists(call.video_path)
                                /\ ~Exists(call.subtitle_path)) =>
             /\ FailedWith("Subtitle file not found")
             /\ call.proc = "none"
             /\ tmpfiles = <<>> /\ log.scratch_of = <<>>)
    /\ [](FailedWith("Failed to convert VTT to SRT format") => call.proc = "none")

\* a job with an existing video and an existing .vtt subtitle has ended in the
\* conversion failure
C23_Witness ==
    /\ FailedWith("Failed to convert VTT to SRT format")
    /\ Exists(call.video_path)
    /\ Exists(call.subtitle_path)
    /\ EndsWith(call.subtitle_path, DotVtt)
    /\ tmpfiles = <<>>

\* the encoder of the call has exited and _merge_with_ffmpeg has built its result
ResultAfterExit == call.pc \in {"cleanup", "returned"} /\ call.proc = "exited"

\* C24: after the subprocess has exited the result is a success exactly when
\* the exit code is zero and the output file exists at the rewritten output
\* path.  A nonzero exit code gives the failure with the exit code and the
\* captured stderr, also when an output file exists; exit code zero without
\* output file gives the output-missing failure.  A success carries the
\* rewritten output path and its size; a failure carries an error and neither.
C24_ResultAfterExit ==
    /\ ResultAfterExit =>
          /\ call.out_path = rewrite_output_path(call.output_path)
          /\ call.result.success <=> (call.rc = 0 /\ call.out_path \in DOMAIN outputs)
          /\ call.rc # 0 =>
                call.result = [success |-> FALSE,
                               error |-> <<"FFmpeg failed with return code",
                                           call.rc, "stderr">>]
          /\ (call.rc = 0 /\ call.out_path \notin DOMAIN outputs) =>
                call.result = [success |-> FALSE,
                               error |-> <<"Output file was not created">>]
          /\ call.result.success =>
                call.result = [success |-> TRUE,
                               output_path |-> call.out_path,
                               file_size |-> <<"getsize", call.out_path>>]
    /\ (call.pc = "returned" /\ ~call.result.success) =>
          /\ "error" \in DOMAIN call.result
          /\ "output_path" \notin DOMAIN call.result
          /\ "file_size" \notin DOMAIN call.result

\* the encoder has exited with a nonzero code and has left an output file: the
\* call has returned the failure
C24_Witness ==
    /\ call.pc = "returned"
    /\ call.proc = "exited"
    /\ call.rc # 0
    /\ call.out_path \in DOMAIN outputs
    /\ ~call.result.success
    /\ call.out_path # call.output_path

-----------------------------------------------------------------------------
(* The two colour helpers (checked under SpecCommand)                       *)

\* C25: for every colour name a builder has been given, in any letter case and
\* in the table or not, _color_to_ass(name) is "&H" followed by
\* _color_to_hex(name).
C25_ColourHelpersAgree ==
    query.pc = "returned" =>
        \A i \in 1..Len(query.style) :
            query.style[i][1] \in {"fontcolor", "outlinecolor", "shadowcolor"} =>
                color_to_ass(query.style[i][2]) = <<"&", "H">> \o color_to_hex(query.style[i][2])

-----------------------------------------------------------------------------
(* A batch over an input tree with videos of the same stem: in/a.avi,       *)
(* in/a.mkv and in/s/a.mkv                                                  *)

\* the videos of the tree with same-stem names
TreeVideos ==
    { <<InDir, <<"a", ".", "a", "v", "i">>>>, <<InDir, <<"a", ".", "m", "k", "v">>>>, <<InDir, <<"s">>, <<"a", ".", "m", "k", "v">>>> }

\* any of the videos, each with the sidecar of one kind next to it (videos of
\* the same stem in one directory share their sidecar), and the batch call of
\* the command line
InitTree ==
    /\ \E videos \in SUBSET TreeVideos :
       \E kind \in {"none", "vtt", "srt"} :
           files = videos \cup
                   {SubtitleCandidate(v, LangZhHans, IF kind = "vtt" THEN DotVtt ELSE DotSrt) :
                        v \in IF kind = "none" THEN {} ELSE videos}
    /\ batch = [pc |-> "start", input_dir |-> <<InDir>>,
                output_dir |-> <<<<"o", "u", "t">>>>,
                subtitle_lang |-> LangZhHans,
                subtitle_style |-> "default", video_quality |-> "high",
                video_files |-> <<>>, idx |-> 1, results |-> <<>>,
                success_count |-> 0]
    /\ tmpfiles = <<>>
    /\ outputs = <<>>
    /\ dirs = {}
    /\ call = IdleCall
    /\ query = NoQuery
    /\ log = NoLog

SpecTree == InitTree /\ [][Next]_vars

\* C26: within one batch the output file of a successful job is never
\* overwritten by a later job: distinct videos, also videos of the same stem in
\* different subdirectories or with different extensions, get distinct final
\* output files, so the file named by a success result is the one its own
\* encoder wrote.
C26_DistinctOutputFiles ==
    /\ \A i \in 1..Len(batch.results) :
          batch.results[i].success =>
              outputs[batch.results[i].output_path].owner = i
    /\ \A i, j \in 1..Len(batch.video_files) :
          i # j =>
              rewrite_output_path(PathStr(batch_output_file(batch.output_dir,
                                                            batch.video_files[i])))
              # rewrite_output_path(PathStr(batch_output_file(batch.output_dir,
                                                              batch.video_files[j])))

-----------------------------------------------------------------------------
(* The input files of one job (checked under SpecCall)                      *)

\* C27: no step of merge_video_with_subtitles removes the given video or the
\* given subtitle (nor any other file of the input tree); a step removes a
\* scratch file only if it is the scratch file handed to the encoder and is
\* not the given subtitle; a subtitle whose name does not end in .vtt is handed
\* to the encoder as it is, with no scratch file written.
C27_InputsUntouched ==
    /\ [][/\ files' = files
          /\ \A p \in DOMAIN tmpfiles \ DOMAIN tmpfiles' :
                /\ p = call.srt_path
                /\ p # call.subtitle_path
                /\ call.pc = "cleanup"]_vars
    /\ []((call.srt_path # Empty /\ ~EndsWith(call.subtitle_path, DotVtt)) =>
             /\ call.srt_path = call.subtitle_path
             /\ tmpfiles = <<>>
             /\ log.scratch_of = <<>>)

\* a call with an .srt subtitle has run the encoder and has returned; the
\* subtitle handed to the encoder was the given one and is still there
C27_Witness ==
    /\ call.pc = "returned"
    /\ call.proc = "exited"
    /\ EndsWith(call.subtitle_path, DotSrt)
    /\ call.srt_path = call.subtitle_path
    /\ Exists(call.subtitle_path)
    /\ Exists(call.video_path)

-----------------------------------------------------------------------------
(* Termination of the scan (checked under SpecNormalize)                    *)

\* C28: every iteration of the outer loop of _convert_vtt_to_srt_content,
\* the discard branch included, leaves the line index strictly greater than it
\* found it and at most one past the last line of the unchanged list of lines:
\* no line is looked at by two iterations and the loop ends after at most
\* len(lines) iterations.
C28_ScanTerminates ==
    /\ [][(query.pc = "scan" /\ query'.pc = "scan") =>
             /\ query'.i > query.i
             /\ query'.lines = query.lines]_vars
    /\ [](query.pc = "scan" => query.i \in 0..(Len(query.lines) + 1))

\* the scan has passed over a cue of too short a duration that had cues after
\* it, and has returned
C28_Witness ==
    /\ Returned
    /\ Len(query.track) = 3
    /\ query.track[1].ts = Ts.ten_millis
    /\ Len(OutCues) >= 1

-----------------------------------------------------------------------------
(* The order of the decisions on the text lines of a cue (checked under     *)
(* SpecNormalize)                                                           *)

\* a line of a cue that is metadata, never cue text
IsMetadataLine(text) ==
    \/ StartsWith(text, <<"N", "O", "T", "E">>)
    \/ StartsWith(text, <<"K", "i", "n", "d", ":">>)
    \/ StartsWith(text, <<"L", "a", "n", "g", "u", "a", "g", "e", ":">>)

\* the cleaned lines of a cue in input order: of all its lines, or of the
\* lines that are no metadata
CleanedLines(cue, with_metadata) ==
    LET RECURSIVE From(_)
        From(k) ==
            IF k > Len(cue.text) THEN <<>>
            ELSE IF ~with_metadata /\ IsMetadataLine(Strip(cue.text[k]))
            THEN From(k + 1)
            ELSE <<clean_subtitle_text(Strip(cue.text[k]))>> \o From(k + 1)
    IN  From(1)

\* one line is the other or holds the other
Overlap(s, t) == s = t \/ Contains(s, t) \/ Contains(t, s)

\* emitted is what deciding the lines of cleaned one by one in input order
\* gives: emitted is cleaned at increasing positions f, starting at the first
\* non-empty line; every line left out is empty or overlaps with a line kept
\* before it, and no kept line overlaps with a line kept before it
FirstWins(cleaned, emitted) ==
    \E f \in [1..Len(emitted) -> 1..Len(cleaned)] :
        /\ \A j \in 1..Len(emitted) : cleaned[f[j]] = emitted[j]
        /\ \A j \in 1..(Len(emitted) - 1) : f[j] < f[j + 1]
        /\ \A m \in 1..Len(cleaned) :
              IF \E j \in 1..Len(emitted) : f[j] = m
              THEN /\ cleaned[m] # Empty
                   /\ \A j \in 1..Len(emitted) : f[j] < m => ~Overlap(cleaned[m], emitted[j])
              ELSE \/ cleaned[m] = Empty
                   \/ \E j \in 1..Len(emitted) : f[j] < m /\ Overlap(cleaned[m], emitted[j])
        /\ \A m \in 1..Len(cleaned) :
              (cleaned[m] # Empty /\ \A n \in 1..(m - 1) : cleaned[n] = Empty) =>
                  (emitted # <<>> /\ f[1] = m)

\* every cue of the output is a cue of the track whose lines were decided
\* first-wins, over all its lines or over the lines that are no metadata
C29Holds(with_metadata) ==
    Returned =>
        \A j \in 1..Len(OutCues) :
            \E k \in 1..Len(query.track) :
                /\ OutCues[j][2] = convert_vtt_timestamp_to_srt(Strip(query.track[k].ts))
                /\ FirstWins(CleanedLines(query.track[k], with_metadata),
                             OutText(OutCues[j]))

-----------------------------------------------------------------------------
(* The order of the arguments of the encoder (checked under SpecCommand)    *)

\* the options of the command that take a value, with their values
C30Options ==
    << << <<"-", "i">>, query.video_path >>,
       << <<"-", "c", ":", "v">>, <<"l", "i", "b", "x", "2", "6", "4">> >>,
       << <<"-", "p", "r", "o", "f", "i", "l", "e", ":", "v">>, <<"b", "a", "s", "e", "l", "i", "n", "e">> >>,
       << <<"-", "l", "e", "v", "e", "l">>, <<"3", ".", "1">> >>,
       << <<"-", "p", "i", "x", "_", "f", "m", "t">>, <<"y", "u", "v", "4", "2", "0", "p">> >>,
       << <<"-", "p", "r", "e", "s", "e", "t">>, <<"m", "e", "d", "i", "u", "m">> >>,
       << <<"-", "c", ":", "a">>, <<"a", "a", "c">> >>,
       << <<"-", "m", "o", "v", "f", "l", "a", "g", "s">>, <<"+", "f", "a", "s", "t", "s", "t", "a", "r", "t">> >>,
       << <<"-", "f">>, <<"m", "p", "4">> >> >>

\* the positions of the rewritten output path in the command
C30OutputAt ==
    {p \in 1..Len(query.cmd) : query.cmd[p] = rewrite_output_path(query.output_path)}

\* C30: the command holds the rewritten output path once; the input, the
\* filter, the codec, the profile, the level, the pixel format, the preset, the
\* audio codec, the container flags and the overwrite flag stand in front of
\* it; for lossless it is the last argument, and for every other tier name it
\* is followed by -b:v and the bitrate and by nothing else.
C30_BitrateAfterOutputPath ==
    (query.pc = "returned" /\ query.fn = "_merge_with_ffmpeg") =>
        /\ Cardinality(C30OutputAt) = 1
        /\ \A p \in C30OutputAt :
              /\ \A n \in 1..Len(C30Options) :
                    \E k \in 1..(p - 2) : /\ query.cmd[k] = C30Options[n][1]
                                          /\ query.cmd[k + 1] = C30Options[n][2]
              /\ \E k \in 1..(p - 2) :
                    /\ query.cmd[k] = <<"-", "v", "f">>
                    /\ StartsWith(query.cmd[k + 1], <<"s", "u", "b", "t", "i", "t", "l", "e", "s", "=", "'">> \o query.srt_path)
              /\ query.cmd[p - 1] = <<"-", "y">>
              /\ IF query.quality = "lossless"
                 THEN Len(query.cmd) = p
                 ELSE /\ Len(query.cmd) = p + 2
                      /\ query.cmd[p + 1] = <<"-", "b", ":", "v">>
                      /\ query.cmd[p + 2] = get_quality_settings(query.quality)[2]
                      /\ query.cmd[p + 2] # Empty

\* the command of the tier high for the output clip.mkv: the rewritten path
\* o/clip.mp4, then -b:v 4000k
C30_Witness ==
    /\ query.pc = "returned"
    /\ query.fn = "_merge_with_ffmpeg"
    /\ query.quality = "high"
    /\ query.output_path = <<"o", "/", "c", "l", "i", "p", ".", "m", "k", "v">>
    /\ SubSeq(query.cmd, Len(query.cmd) - 2, Len(query.cmd))
          = << <<"o", "/", "c", "l", "i", "p", ".", "m", "p", "4">>, <<"-", "b", ":", "v">>, <<"4", "0", "0", "0", "k">> >>

====
